---- MODULE Spec2Model ----
(***************************************************************************)
(* Verification model of the virtual electrical designer & simulator:      *)
(*   - CircuitValidator  (src/src/backend/circuit/circuit_validator.py)    *)
(*   - CircuitAnalyzer   (src/src/backend/circuit/circuit_analyzer.py)     *)
(*   - MainWindow.run_simulation (src/src/frontend/ui/main_window.py)      *)
(*   - SimulationEngine (src/src/backend/simulation/simulation_engine.py)  *)
(*   - Circuit           (src/src/backend/circuit/circuit_model.py)        *)
(*   - CircuitCanvas     (src/src/frontend/panels/circuit_canvas.py)       *)
(*   - ProjectManager    (src/src/backend/circuit/project_manager.py)      *)
(*   - ScriptExecutionThread                                               *)
(*                       (src/src/backend/scripting/script_engine.py)      *)
(*                                                                         *)
(* Component ids are modelled as the positive integers 1..n in the         *)
(* insertion order of the Python dict `components`; an id greater than n   *)
(* is an id that is not a component of the netlist.  None (a missing       *)
(* "from"/"to" key, wire.get(...) -> None) is modelled as 0.               *)
(***************************************************************************)
EXTENDS Integers, Sequences, FiniteSets, TLC

\* ------------------------------------------------------------------ bounds
MaxValidatorComps == 3
MaxValidatorWires == 1
MaxAnalyzerComps == 3
MaxAnalyzerWires == 3
MaxCanvasComps == 2
MaxCanvasWires == 2
MaxRuns == 2
MaxPlacedComps == 3
MaxTransientSteps == 3
MaxSamples == 2
MaxCallbacks == 2
MaxNodes == 2
MaxComponents == 2
MaxBindings == 2
MaxStackDepth == 6
MaxScriptThreads == 2
MaxCanvasOps == 4
MaxUndoEdits == 1
MaxEditDepth == 3
MaxMeshComps == 3
MaxMeshWires == 4

\* ----------------------------------------------------------- value domains
None == 0

ComponentTypes == {"Ground", "voltage_source", "resistor"}

\* str.lower() on the component type strings that occur in the model
Lower(t) ==
    CASE t = "Ground" -> "ground"
      [] t = "VoltageSource" -> "voltagesource"
      [] t = "Resistor" -> "resistor"
      [] OTHER -> t

\* canvas coordinates a component is placed at
Coordinates == {0, 10, 30, 50}

\* a value of the `components` dict placed at (x, y): a dict (isdict) carrying
\* "type", "x" and "y", or an object that is not a dict (CanvasComponent) on
\* which .get() raises
PlacedComponent(i, t, d, x, y) == [id |-> i, type |-> t, isdict |-> d, x |-> x, y |-> y]

\* a component without position: comp.get("x", 0) and comp.get("y", 0) read 0
Component(i, t, d) == PlacedComponent(i, t, d, 0, 0)

\* an element of the `wires` list: a dict with "from"/"to", or a non-dict
\* value (isinstance(wire, dict) is False)
DictWire(f, t) == [isdict |-> TRUE, from |-> f, to |-> t]
NonDictWire == [isdict |-> FALSE, from |-> None, to |-> None]

CircuitData(cs, ws) == [components |-> cs, wires |-> ws]
EmptyCircuit == CircuitData(<<>>, <<>>)

ComponentIds(components) == {components[i].id : i \in 1..Len(components)}

ComponentById(components, cid) ==
    components[CHOOSE i \in 1..Len(components) : components[i].id = cid]

\* all sequences over S of length at most n
SeqsUpTo(S, n) == UNION {[1..k -> S] : k \in 0..n}

\* all orders in which the elements of a finite set can be iterated
Perms(S) ==
    {p \in [1..Cardinality(S) -> S] : \A i, j \in 1..Cardinality(S) : p[i] = p[j] => i = j}

RECURSIVE Flatten(_)
Flatten(ss) == IF ss = <<>> THEN <<>> ELSE Head(ss) \o Flatten(Tail(ss))

\* ================================================================ validator
ValidationIssue(lv, cid, text, ref) ==
    [level |-> lv, component_id |-> cid, message |-> [text |-> text, ref |-> ref]]

\* outcome of one check: the issues it appended and whether it raised
CheckResult(iss, r) == [issues |-> iss, raised |-> r]

_check_empty_circuit(components) ==
    CheckResult(
        IF Len(components) = 0
        THEN <<ValidationIssue("warning", None, "Circuit is empty", None)>>
        ELSE <<>>,
        FALSE)

\* mutant: only the "from" end of a wire counts as connected
connected_comps_from_only(wires) ==
    {wires[i].from : i \in {j \in 1..Len(wires) : wires[j].isdict}}

\* connected_comps of _check_isolated_components: every "from"/"to" of a dict wire
connected_comps(wires) ==
    UNION {{wires[i].from, wires[i].to} : i \in {j \in 1..Len(wires) : wires[j].isdict}}

_check_isolated_components(components, wires) ==
    LET conn == connected_comps(wires)
        isolated(i) == components[i].id \notin conn
        \* comp.get('name', comp_id) raises AttributeError on a non-dict value
        raising == {i \in 1..Len(components) : isolated(i) /\ ~components[i].isdict}
        stop == IF raising = {} THEN Len(components) + 1
                ELSE CHOOSE i \in raising : \A j \in raising : i <= j
    IN CheckResult(
        Flatten([i \in 1..(stop - 1) |->
            IF isolated(i)
            THEN <<ValidationIssue("warning", components[i].id,
                                   "is not connected", components[i].id)>>
            ELSE <<>>]),
        raising # {})

\* mutant: the "to" end of a wire is never looked at
_check_component_connectivity_from_only(components, wires) ==
    LET ids == ComponentIds(components)
        dangling(e) ==
            IF e # None /\ e \notin ids
            THEN <<ValidationIssue("error", None,
                                   "Wire references non-existent component", e)>>
            ELSE <<>>
    IN CheckResult(
        Flatten([i \in 1..Len(wires) |->
            IF ~wires[i].isdict THEN <<>> ELSE dangling(wires[i].from)]),
        FALSE)

_check_component_connectivity(components, wires) ==
    LET ids == ComponentIds(components)
        dangling(e) ==
            IF e # None /\ e \notin ids
            THEN <<ValidationIssue("error", None,
                                   "Wire references non-existent component", e)>>
            ELSE <<>>
    IN CheckResult(
        Flatten([i \in 1..Len(wires) |->
            IF ~wires[i].isdict THEN <<>>
            ELSE dangling(wires[i].from) \o dangling(wires[i].to)]),
        FALSE)

\* mutant: the warning is not limited to circuits that have components
_check_ground_reference_unguarded(components) ==
    LET has_ground == \E i \in 1..Len(components) :
            components[i].isdict /\ Lower(components[i].type) = "ground"
    IN CheckResult(
        IF ~has_ground
        THEN <<ValidationIssue("warning", None, "Circuit has no ground reference", None)>>
        ELSE <<>>,
        FALSE)

_check_ground_reference(components) ==
    LET has_ground == \E i \in 1..Len(components) :
            components[i].isdict /\ Lower(components[i].type) = "ground"
    IN CheckResult(
        IF ~has_ground /\ Len(components) > 0
        THEN <<ValidationIssue("warning", None, "Circuit has no ground reference", None)>>
        ELSE <<>>,
        FALSE)

SourceTypes == {"voltage_source", "current_source", "voltage source", "current source"}

_check_sources(components) ==
    LET has_sources == \E i \in 1..Len(components) :
            components[i].isdict /\ Lower(components[i].type) \in SourceTypes
    IN CheckResult(
        IF ~has_sources /\ Len(components) > 0
        THEN <<ValidationIssue("warning", None,
                               "Circuit has no voltage or current sources", None)>>
        ELSE <<>>,
        FALSE)

\* adjacency built by _check_loops: keys are the component ids, the neighbour
\* lists are filled wire by wire
RECURSIVE check_loops_adjacency(_, _, _)
check_loops_adjacency(adj, wires, i) ==
    IF i > Len(wires) THEN adj
    ELSE LET w == wires[i]
             f == w.from
             t == w.to
         IN IF w.isdict /\ f \in DOMAIN adj /\ t \in DOMAIN adj
            THEN LET a1 == IF \E k \in 1..Len(adj[f]) : adj[f][k] = t
                           THEN adj ELSE [adj EXCEPT ![f] = Append(@, t)]
                     a2 == IF \E k \in 1..Len(a1[t]) : a1[t][k] = f
                           THEN a1 ELSE [a1 EXCEPT ![t] = Append(@, f)]
                 IN check_loops_adjacency(a2, wires, i + 1)
            ELSE check_loops_adjacency(adj, wires, i + 1)

RECURSIVE _dfs(_, _, _), dfs_neighbors(_, _, _, _)
_dfs(node, adjacency, visited) ==
    dfs_neighbors(node, adjacency, visited \cup {node}, 1)
dfs_neighbors(node, adjacency, visited, k) ==
    IF k > Len(adjacency[node]) THEN visited
    ELSE LET neighbor == adjacency[node][k]
         IN dfs_neighbors(node, adjacency,
                IF neighbor \notin visited THEN _dfs(neighbor, adjacency, visited)
                ELSE visited,
                k + 1)

\* mutant: the search starts from the last component instead of the first
check_loops_unvisited_from_last(components, wires) ==
    IF Len(components) = 0 THEN {}
    ELSE LET adjacency == check_loops_adjacency(
                 [c \in ComponentIds(components) |-> <<>>], wires, 1)
             start_node == components[Len(components)].id
         IN DOMAIN adjacency \ _dfs(start_node, adjacency, {})

\* the set `unvisited` of _check_loops
check_loops_unvisited(components, wires) ==
    IF Len(components) = 0 THEN {}
    ELSE LET adjacency == check_loops_adjacency(
                 [c \in ComponentIds(components) |-> <<>>], wires, 1)
             start_node == components[1].id
         IN DOMAIN adjacency \ _dfs(start_node, adjacency, {})

\* mutant: the disconnected components are reported as warnings
_check_loops_as_warnings(components, wires, order) ==
    CheckResult(
        [k \in 1..Len(order) |->
            ValidationIssue("warning", order[k],
                            "is disconnected from main circuit", order[k])],
        FALSE)

\* `order` is the order in which Python iterates the set `unvisited`
_check_loops(components, wires, order) ==
    LET raising == {k \in 1..Len(order) : ~ComponentById(components, order[k]).isdict}
        stop == IF raising = {} THEN Len(order) + 1
                ELSE CHOOSE k \in raising : \A j \in raising : k <= j
    IN CheckResult(
        [k \in 1..(stop - 1) |->
            ValidationIssue("error", order[k],
                            "is disconnected from main circuit", order[k])],
        raising # {})

\* self.issues.clear()
issues_clear(before) == <<>>

\* runs the checks in order; a check that raises ends the call and leaves
\* the issues appended so far in self.issues
RECURSIVE RunChecks(_, _)
RunChecks(checks, acc) ==
    IF checks = <<>> THEN CheckResult(acc, FALSE)
    ELSE LET r == Head(checks)
         IN IF r.raised THEN CheckResult(acc \o r.issues, TRUE)
            ELSE RunChecks(Tail(checks), acc \o r.issues)

\* mutant: any issue, of whatever level, makes the circuit invalid
validate_circuit_any_issue_invalid(before, circuit_data, order) ==
    LET components == circuit_data.components
        wires == circuit_data.wires
        run == RunChecks(<<
            _check_empty_circuit(components),
            _check_isolated_components(components, wires),
            _check_component_connectivity(components, wires),
            _check_ground_reference(components),
            _check_sources(components),
            _check_loops(components, wires, order) >>, <<>>)
    IN [raised |-> run.raised, is_valid |-> run.issues = <<>> /\ ~run.raised,
        issues |-> run.issues]

\* mutant: the ground-reference check runs before the dangling-wire check
validate_circuit_ground_first(before, circuit_data, order) ==
    LET components == circuit_data.components
        wires == circuit_data.wires
        run == RunChecks(<<
            _check_empty_circuit(components),
            _check_isolated_components(components, wires),
            _check_ground_reference(components),
            _check_component_connectivity(components, wires),
            _check_sources(components),
            _check_loops(components, wires, order) >>, <<>>)
        is_valid == ~\E i \in 1..Len(run.issues) : run.issues[i].level = "error"
    IN [raised |-> run.raised, is_valid |-> is_valid /\ ~run.raised, issues |-> run.issues]

\* `before` is self.issues on entry
validate_circuit(before, circuit_data, order) ==
    LET components == circuit_data.components
        wires == circuit_data.wires
        cleared == issues_clear(before)
        run == RunChecks(<<
            _check_empty_circuit(components),
            _check_isolated_components(components, wires),
            _check_component_connectivity(components, wires),
            _check_ground_reference(components),
            _check_sources(components),
            _check_loops(components, wires, order) >>, cleared)
        is_valid == ~\E i \in 1..Len(run.issues) : run.issues[i].level = "error"
    IN [raised |-> run.raised, is_valid |-> is_valid /\ ~run.raised, issues |-> run.issues]

\* ================================================================= analyzer
EmptyAdjacency == [c \in {} |-> <<>>]

\* dict.get(key, []) on the adjacency list
AdjacencyGet(adjacency_list, c) ==
    IF c \in DOMAIN adjacency_list THEN adjacency_list[c] ELSE <<>>

InList(x, list) == \E k \in 1..Len(list) : list[k] = x

\* the wire loop of _build_adjacency_list
RECURSIVE build_adjacency_wires(_, _, _)
build_adjacency_wires(adj, wires, i) ==
    IF i > Len(wires) THEN adj
    ELSE LET w == wires[i]
             from_id == w.from
             to_id == w.to
         IN IF w.isdict /\ from_id \in DOMAIN adj /\ to_id \in DOMAIN adj
            THEN LET a1 == IF InList(to_id, adj[from_id])
                           THEN adj ELSE [adj EXCEPT ![from_id] = Append(@, to_id)]
                     a2 == IF InList(from_id, a1[to_id])
                           THEN a1 ELSE [a1 EXCEPT ![to_id] = Append(@, from_id)]
                 IN build_adjacency_wires(a2, wires, i + 1)
            ELSE build_adjacency_wires(adj, wires, i + 1)

\* mutant: the adjacency list of the previous call is kept
adjacency_keep(before) == before

\* self.adjacency_list.clear()
adjacency_clear(before) == EmptyAdjacency

\* `before` is self.adjacency_list on entry; the result is self.adjacency_list on exit
_build_adjacency_list(before, components, wires) ==
    LET cleared == adjacency_clear(before)
        ids == ComponentIds(components)
        keyed == [c \in (DOMAIN cleared) \cup ids |->
                    IF c \in ids THEN <<>> ELSE cleared[c]]
    IN build_adjacency_wires(keyed, wires, 1)

\* the inner BFS of _analyze_connectivity: returns the visited set once the
\* queue is empty
RECURSIVE bfs(_, _, _), bfs_neighbors(_, _, _, _, _)
bfs(queue, visited, adjacency_list) ==
    IF queue = <<>> THEN visited
    ELSE LET current == Head(queue)
         IN bfs_neighbors(AdjacencyGet(adjacency_list, current), 1,
                          Tail(queue), visited, adjacency_list)
bfs_neighbors(neighbors, k, queue, visited, adjacency_list) ==
    IF k > Len(neighbors) THEN bfs(queue, visited, adjacency_list)
    ELSE LET neighbor == neighbors[k]
         IN IF neighbor \notin visited
            THEN bfs_neighbors(neighbors, k + 1, Append(queue, neighbor),
                               visited \cup {neighbor}, adjacency_list)
            ELSE bfs_neighbors(neighbors, k + 1, queue, visited, adjacency_list)

\* mutant: a search is started from every component
always_unvisited(comp_id, visited) == TRUE

\* `if comp_id not in visited` of _analyze_connectivity
not_visited(comp_id, visited) == comp_id \notin visited

\* the outer loop of _analyze_connectivity; `groups` records, for each
\* increment of connected_groups, the components the BFS of that round visited
RECURSIVE connectivity_loop(_, _, _, _, _)
connectivity_loop(components, i, visited, groups, adjacency_list) ==
    IF i > Len(components) THEN [visited |-> visited, groups |-> groups]
    ELSE LET comp_id == components[i].id
         IN IF not_visited(comp_id, visited)
            THEN LET after == bfs(<<comp_id>>, visited \cup {comp_id}, adjacency_list)
                 IN connectivity_loop(components, i + 1, after,
                                      Append(groups, after \ visited), adjacency_list)
            ELSE connectivity_loop(components, i + 1, visited, groups, adjacency_list)

\* value of a key that the returned dict does not have
Missing == -1

_analyze_connectivity(components, adjacency_list) ==
    IF Len(components) = 0
    THEN [connected_components |-> 0, isolated_components |-> 0,
          separate_groups |-> Missing, groups |-> <<>>]
    ELSE LET r == connectivity_loop(components, 1, {}, <<>>, adjacency_list)
             isolated == Cardinality({i \in 1..Len(components) :
                             AdjacencyGet(adjacency_list, components[i].id) = <<>>})
         IN [connected_components |-> Cardinality(r.visited),
             isolated_components |-> isolated,
             separate_groups |-> Len(r.groups),
             groups |-> r.groups]

\* list.index(x)
IndexOf(x, list) == CHOOSE k \in 1..Len(list) : list[k] = x /\ \A j \in 1..(k - 1) : list[j] # x

\* _find_cycle with an explicit path; the result <<>> stands for None
RECURSIVE find_cycle_path(_, _, _, _), find_cycle_neighbors(_, _, _, _, _)
find_cycle_path(start, next_node, path, adjacency_list) ==
    IF InList(next_node, path) /\ Len(path) > 2
    THEN SubSeq(path, IndexOf(next_node, path), Len(path)) \o <<next_node>>
    ELSE IF InList(next_node, path) THEN <<>>
    ELSE find_cycle_neighbors(start, next_node, Append(path, next_node), adjacency_list, 1)
find_cycle_neighbors(start, next_node, new_path, adjacency_list, k) ==
    LET neighbors == AdjacencyGet(adjacency_list, next_node)
    IN IF k > Len(neighbors) THEN <<>>
       ELSE LET neighbor == neighbors[k]
            IN IF neighbor = start /\ Len(new_path) > 2 THEN new_path
               ELSE IF ~InList(neighbor, new_path)
               THEN LET cycle == find_cycle_path(start, neighbor, new_path, adjacency_list)
                    IN IF cycle # <<>> THEN cycle
                       ELSE find_cycle_neighbors(start, next_node, new_path,
                                                 adjacency_list, k + 1)
               ELSE find_cycle_neighbors(start, next_node, new_path, adjacency_list, k + 1)

\* _find_cycle called with path=None: the path starts as [start]
_find_cycle(start, next_node, adjacency_list) ==
    find_cycle_path(start, next_node, <<start>>, adjacency_list)

\* tuple(sorted([a, b]))
SortedEdge(a, b) == IF a <= b THEN <<a, b>> ELSE <<b, a>>

\* mutant: no edge is ever skipped
edge_never_seen(edge, visited_edges) == FALSE

\* whether _find_meshes skips an edge that is already in visited_edges
edge_seen(edge, visited_edges) == edge \in visited_edges

\* the two nested loops of _find_meshes
RECURSIVE find_meshes_loop(_, _, _, _, _, _)
find_meshes_loop(components, i, k, visited_edges, meshes, adjacency_list) ==
    IF i > Len(components) THEN meshes
    ELSE LET start_comp == components[i].id
             neighbors == AdjacencyGet(adjacency_list, start_comp)
         IN IF k > Len(neighbors)
            THEN find_meshes_loop(components, i + 1, 1, visited_edges, meshes, adjacency_list)
            ELSE LET neighbor == neighbors[k]
                     edge == SortedEdge(start_comp, neighbor)
                 IN IF edge_seen(edge, visited_edges)
                    THEN find_meshes_loop(components, i, k + 1, visited_edges, meshes,
                                          adjacency_list)
                    ELSE LET cycle == _find_cycle(start_comp, neighbor, adjacency_list)
                         IN find_meshes_loop(components, i, k + 1,
                                visited_edges \cup {edge},
                                IF cycle # <<>> /\ Len(cycle) > 2
                                THEN Append(meshes, cycle) ELSE meshes,
                                adjacency_list)

_find_meshes(components, adjacency_list) ==
    find_meshes_loop(components, 1, 1, {}, <<>>, adjacency_list)

_count_component_types(components) ==
    LET dicts == {i \in 1..Len(components) : components[i].isdict}
        types == {Lower(components[i].type) : i \in dicts}
    IN [t \in types |-> Cardinality({i \in dicts : Lower(components[i].type) = t})]

_is_planar_circuit(components, wires) ==
    LET V == Len(components)
        E == Len(wires)
    IN IF V <= 2 THEN TRUE ELSE E <= 3 * V - 6

\* Python round(v / 20): the quotient rounded to the nearest integer, a tie to
\* the even one
round_div_20(v) ==
    LET q == v \div 20
        r == v % 20
    IN IF r < 10 THEN q
       ELSE IF r > 10 THEN q + 1
       ELSE IF q % 2 = 0 THEN q ELSE q + 1

\* (round(x / 20) * 20, round(y / 20) * 20)
GridPosition(comp) == <<round_div_20(comp.x) * 20, round_div_20(comp.y) * 20>>

_count_nodes(components) ==
    Cardinality({GridPosition(components[i]) :
                    i \in {j \in 1..Len(components) : components[j].isdict}})

\* the first loop of _number_nodes: components_by_position, as the list of
\* its items in insertion order
RECURSIVE components_by_position(_, _, _)
components_by_position(components, i, by_position) ==
    IF i > Len(components) THEN by_position
    ELSE LET comp == components[i]
             pos == GridPosition(comp)
         IN IF ~comp.isdict
            THEN components_by_position(components, i + 1, by_position)
            ELSE IF \E k \in 1..Len(by_position) : by_position[k].pos = pos
            THEN LET k == CHOOSE k \in 1..Len(by_position) : by_position[k].pos = pos
                 IN components_by_position(components, i + 1,
                        [by_position EXCEPT ![k].comps = Append(@, comp.id)])
            ELSE components_by_position(components, i + 1,
                        Append(by_position, [pos |-> pos, comps |-> <<comp.id>>]))

\* self.node_mapping[comp_id] = node_counter
SetItem(mapping, key, value) ==
    [c \in (DOMAIN mapping) \cup {key} |-> IF c = key THEN value ELSE mapping[c]]

\* the second loop of _number_nodes
RECURSIVE assign_node_numbers(_, _, _, _, _)
assign_node_numbers(by_position, k, j, node_counter, mapping) ==
    IF k > Len(by_position) THEN mapping
    ELSE IF j > Len(by_position[k].comps)
    THEN assign_node_numbers(by_position, k + 1, 1, node_counter + 1, mapping)
    ELSE assign_node_numbers(by_position, k, j + 1, node_counter,
                             SetItem(mapping, by_position[k].comps[j], node_counter))

EmptyMapping == [c \in {} |-> 0]

\* self.node_mapping.clear()
node_mapping_clear(before) == EmptyMapping

\* `before` is self.node_mapping on entry; the result is self.node_mapping on
\* exit, which is also the returned dict
_number_nodes(before, components) ==
    assign_node_numbers(components_by_position(components, 1, <<>>), 1, 1, 0,
                        node_mapping_clear(before))

\* the dict returned by analyze_circuit; "node_mapping" is self.node_mapping,
\* kept in the variable node_mapping
analyze_result(components, wires, adjacency_list) ==
    [node_count |-> _count_nodes(components),
     component_count |-> Len(components),
     wire_count |-> Len(wires),
     connectivity |-> _analyze_connectivity(components, adjacency_list),
     meshes |-> _find_meshes(components, adjacency_list),
     component_types |-> _count_component_types(components),
     is_planar |-> _is_planar_circuit(components, wires)]

\* ========================================================= simulation engine
\* times are counted in ticks of one millisecond
DefaultDuration == 1000
DefaultTimeStep == 1
DefaultSamples == 100

\* SimulationConfig(sim_type, ...) with the defaults of the dataclass;
\* quotient_excess is 1 for a pair of floats (duration, time_step) whose
\* quotient duration / time_step rounds above the exact quotient, else 0
SimulationConfig(sim_type) ==
    [sim_type |-> sim_type,
     duration |-> DefaultDuration,
     time_step |-> DefaultTimeStep,
     quotient_excess |-> 0,
     sweeping_parameter |-> "None",
     sweep_range |-> <<>>,
     monte_carlo_samples |-> DefaultSamples]

\* self.config = None
NoConfig == SimulationConfig("None")

\* error_message = None
NoMessage == "None"

\* SimulationResult(...); the three dicts of series are modelled by their keys
SimulationResult(time_points, node_voltages, component_currents, power_dissipation, status, error_message) ==
    [time_points |-> time_points,
     node_voltages |-> node_voltages,
     component_currents |-> component_currents,
     power_dissipation |-> power_dissipation,
     status |-> status,
     error_message |-> error_message]

\* self.result = None
NoResult == SimulationResult(<<>>, {}, {}, {}, "None", NoMessage)

setup_dc_analysis == SimulationConfig("dc")

setup_ac_analysis(frequency_start, frequency_end) ==
    [SimulationConfig("ac") EXCEPT !.sweep_range = <<frequency_start, frequency_end>>]

setup_transient_analysis(duration, time_step, excess) ==
    [SimulationConfig("transient") EXCEPT !.duration = duration, !.time_step = time_step,
                                          !.quotient_excess = excess]

setup_parametric_sweep(parameter, start, end) ==
    [SimulationConfig("parametric") EXCEPT !.sweeping_parameter = parameter,
                                           !.sweep_range = <<start, end>>]

setup_monte_carlo(samples) ==
    [SimulationConfig("monte_carlo") EXCEPT !.monte_carlo_samples = samples]

\* Y and I of _run_dc, in units of 0.01
AdmittanceMatrix == << <<1, -1>>, <<-1, 1>> >>
CurrentVector == <<1, 0>>

Abs(v) == IF v < 0 THEN -v ELSE v

\* np.linalg.solve on a 2x2 system: elimination with partial pivoting; a zero
\* pivot raises LinAlgError, else the solution is V[k] = num[k] / den
np_linalg_solve(Y, I) ==
    LET p == IF Abs(Y[2][1]) > Abs(Y[1][1]) THEN 2 ELSE 1
        q == 3 - p
        u22 == Y[q][2] * Y[p][1] - Y[q][1] * Y[p][2]
    IN IF Y[p][1] = 0 \/ u22 = 0
       THEN [singular |-> TRUE, num |-> <<0, 0>>, den |-> 1]
       ELSE LET n2 == I[q] * Y[p][1] - Y[q][1] * I[p]
            IN [singular |-> FALSE,
                num |-> <<I[p] * u22 - Y[p][2] * n2, n2 * Y[p][1]>>,
                den |-> u22 * Y[p][1]]

\* mutant: a singular system is reported with zero-filled series
singular_result_zero_filled(time_points) ==
    SimulationResult(time_points, {"node_0", "node_1"}, {"R1"}, {"R1"}, "failed",
                     "Singular admittance matrix - check circuit")

\* the result of _run_dc on LinAlgError
singular_result(time_points) ==
    SimulationResult(time_points, {}, {}, {}, "failed",
                     "Singular admittance matrix - check circuit")

_run_dc ==
    LET time_points == <<0>>
        solved == np_linalg_solve(AdmittanceMatrix, CurrentVector)
    IN IF solved.singular
       THEN singular_result(time_points)
       ELSE SimulationResult(time_points, {"node_0", "node_1"}, {"R1"}, {"R1"},
                             "success", NoMessage)

\* num_points of _run_ac and of _run_parametric
NumPointsAC == 100
NumPointsParametric == 50

\* np.logspace / np.linspace / np.arange(n): the axis of n points, each point
\* modelled by its index
PointAxis(n) == [i \in 1..n |-> i - 1]

_run_ac(config) ==
    SimulationResult(PointAxis(NumPointsAC), {"V_in", "Z_magnitude", "Z_phase"},
                     {"I_total", "I_phase"}, {"P_real", "P_reactive"}, "success", NoMessage)

\* np.arange(start, stop, step): ceil((stop - start) / step) points, the
\* quotient being the one of the floats
np_arange(start, stop, step, quotient_excess) ==
    LET exact == (stop - start) \div step
        length == IF (stop - start) % step = 0 THEN exact + quotient_excess ELSE exact + 1
    IN [i \in 1..length |-> start + (i - 1) * step]

\* np.gradient raises ValueError on an array of fewer than 2 elements
_run_transient(config) ==
    LET time_points == np_arange(0, config.duration, config.time_step,
                                 config.quotient_excess)
    IN IF Len(time_points) < 2
       THEN SimulationResult(<<>>, {}, {}, {}, "failed", "Transient analysis failed")
       ELSE SimulationResult(time_points, {"V_input", "V_output"},
                             {"I_resistor", "I_capacitor"}, {"P_resistor", "P_reactive"},
                             "success", NoMessage)

_run_parametric(config) ==
    LET param == IF config.sweeping_parameter = "None" THEN "resistance"
                 ELSE config.sweeping_parameter
    IN SimulationResult(PointAxis(NumPointsParametric), {param, "output_voltage"},
                        {"current"}, {"power"}, "success", NoMessage)

\* samples = self.config.monte_carlo_samples or 100
monte_carlo_sample_count(config) ==
    IF config.monte_carlo_samples = 0 THEN DefaultSamples ELSE config.monte_carlo_samples

_run_monte_carlo(config) ==
    SimulationResult(PointAxis(monte_carlo_sample_count(config)),
                     {"V_output_mean", "V_output_std", "V_output_samples"},
                     {"I_mean", "I_std", "I_samples"}, {"P_mean", "P_std"},
                     "success", NoMessage)

\* mutant: a run without configuration is reported as an unknown type
no_config_result_unknown_type ==
    SimulationResult(<<>>, {}, {}, {}, "failed", "Unknown simulation type")

\* the result returned by run() when self.config is None
no_config_result ==
    SimulationResult(<<>>, {}, {}, {}, "failed", "No simulation configuration set")

\* the dispatch of run() on self.config.sim_type
run_analysis(config) ==
    CASE config.sim_type = "dc" -> _run_dc
      [] config.sim_type = "ac" -> _run_ac(config)
      [] config.sim_type = "transient" -> _run_transient(config)
      [] config.sim_type = "parametric" -> _run_parametric(config)
      [] config.sim_type = "monte_carlo" -> _run_monte_carlo(config)
      [] OTHER -> SimulationResult(<<>>, {}, {}, {}, "failed", "Unknown simulation type")

\* the points / steps / samples that the analysis of a configuration computes
points_to_compute(config) ==
    CASE config.sim_type = "ac" -> NumPointsAC
      [] config.sim_type = "transient" ->
            Len(np_arange(0, config.duration, config.time_step, config.quotient_excess))
      [] config.sim_type = "parametric" -> NumPointsParametric
      [] config.sim_type = "monte_carlo" -> monte_carlo_sample_count(config)
      [] OTHER -> 1

\* what a registered callback does when it is called
CallbackBehaviours == {"returns", "raises"}

\* one call callback(self.result), as the callback sees it
Notification(k, result, stored, is_running) ==
    [callback |-> k, result |-> result, stored |-> stored, is_running |-> is_running]

\* _notify_callbacks: the callbacks are called in list order until one raises
RECURSIVE _notify_callbacks(_, _, _, _, _)
_notify_callbacks(callbacks, k, result, is_running, notified) ==
    IF k > Len(callbacks) THEN [raised |-> FALSE, notified |-> notified]
    ELSE LET seen == Append(notified, Notification(k, result, result, is_running))
         IN IF callbacks[k] = "raises"
            THEN [raised |-> TRUE, notified |-> seen]
            ELSE _notify_callbacks(callbacks, k + 1, result, is_running, seen)

\* run(): what it returns or raises, and self.result / self.is_running / the
\* calls of the callbacks after it
run(config, result_before, is_running_before, callbacks) ==
    IF config = NoConfig
    THEN [raised |-> FALSE, returned |-> no_config_result, result |-> result_before,
          is_running |-> is_running_before, notified |-> <<>>]
    ELSE LET result == run_analysis(config)
             notify == _notify_callbacks(callbacks, 1, result, FALSE, <<>>)
         IN [raised |-> notify.raised, returned |-> result, result |-> result,
             is_running |-> FALSE, notified |-> notify.notified]

\* ============================================================= circuit model
\* Circuit.add_node: self.nodes[node_id] = Node(node_id, name), a node with no
\* connected components
add_node(nodes, node_id) == SetItem(nodes, node_id, <<>>)

\* Circuit.add_component: self.components[comp_id] = Component(...), a
\* component with no nodes
add_component(components, comp_id) == SetItem(components, comp_id, <<>>)

\* Circuit.connect: the two dicts after the call, whether it raised, and
\* whether it bound the component to the node
connect(nodes, components, node_id, comp_id) ==
    IF node_id \in DOMAIN nodes /\ comp_id \in DOMAIN components
    THEN [nodes |-> [nodes EXCEPT ![node_id] = Append(@, comp_id)],
          components |-> [components EXCEPT ![comp_id] = Append(@, node_id)],
          raised |-> FALSE, bound |-> TRUE]
    ELSE [nodes |-> nodes, components |-> components, raised |-> FALSE, bound |-> FALSE]

\* ========================================================== schematic canvas
\* CircuitCanvas (frontend/panels/circuit_canvas.py).  A canvas is a record
\* `self` with the attributes of the object; the id "comp_<k>", "node_<k>",
\* "wire_<k>" is modelled as the number k and None as Missing.  Coordinates
\* are integers.  Multi-selection (select_all, marquee) is not among the
\* modelled operations, so selected_components stays the empty list.
grid_size == 20
max_undo_levels == 50
DefaultWidth == 60
PortOffset == 15

\* dict without the keys in `keys`
Without(mapping, keys) == [k \in (DOMAIN mapping) \ keys |-> mapping[k]]

\* CanvasComponent(x, y, comp_id, comp_type, name), selected = False
CanvasItem(x, y, comp_id, comp_type) ==
    [x |-> x, y |-> y, comp_id |-> comp_id, comp_type |-> comp_type, selected |-> FALSE]

\* Node(x, y, node_id)
CanvasNode(x, y) == [x |-> x, y |-> y]

\* Wire(from_node, to_node, wire_id)
CanvasWire(from_node, to_node) == [from_node |-> from_node, to_node |-> to_node]

\* "ground" in self.comp_type.lower()
IsGroundType(comp_type) == comp_type \in {"Ground", "ground"}

\* CanvasComponent.get_ports
get_ports(comp) ==
    IF IsGroundType(comp.comp_type)
    THEN << <<comp.x, comp.y - PortOffset>> >>
    ELSE << <<comp.x - DefaultWidth \div 2, comp.y>>,
            <<comp.x + DefaultWidth \div 2, comp.y>> >>

\* CircuitCanvas.__init__: _auto_fix_ground_components finds no component
NewCanvas ==
    [components |-> [k \in {} |-> 0], nodes |-> [k \in {} |-> 0],
     wires |-> [k \in {} |-> 0], node_to_component |-> [k \in {} |-> 0],
     node_counter |-> 0, wire_counter |-> 0,
     selected_component |-> Missing, selected_components |-> <<>>,
     snap_to_grid |-> TRUE, undo_stack |-> <<>>, redo_stack |-> <<>>,
     clipboard |-> [components |-> <<>>, nodes |-> {}, wires |-> <<>>]]

\* the nodes that node_to_component binds to comp_id
nodes_of(self, comp_id) ==
    {nid \in DOMAIN self.node_to_component : self.node_to_component[nid] = comp_id}

\* CircuitCanvas._add_component_nodes
_add_component_nodes(self, comp_id) ==
    LET comp == self.components[comp_id]
        nodes_to_remove == nodes_of(self, comp_id)
        kept_nodes == Without(self.nodes, nodes_to_remove)
        kept_owner == Without(self.node_to_component, nodes_to_remove)
        ports == get_ports(comp)
        new_ids == {self.node_counter + i - 1 : i \in 1..Len(ports)}
        port_of(nid) == ports[nid - self.node_counter + 1]
    IN [self EXCEPT
          !.nodes = [nid \in (DOMAIN kept_nodes) \cup new_ids |->
                        IF nid \in new_ids
                        THEN CanvasNode(port_of(nid)[1], port_of(nid)[2])
                        ELSE kept_nodes[nid]],
          !.node_to_component = [nid \in (DOMAIN kept_owner) \cup new_ids |->
                        IF nid \in new_ids THEN comp_id ELSE kept_owner[nid]],
          !.node_counter = self.node_counter + Len(ports)]

\* f"comp_{len(self.components)}"
next_comp_id(components) == Cardinality(DOMAIN components)

\* CircuitCanvas.add_component: the canvas after the call and the returned id
canvas_add_component(self, comp_type, x, y) ==
    LET comp_id == next_comp_id(self.components)
        placed == [self EXCEPT !.components =
                      SetItem(self.components, comp_id, CanvasItem(x, y, comp_id, comp_type))]
    IN [self |-> _add_component_nodes(placed, comp_id), returned |-> comp_id,
        raised |-> FALSE]

\* the state that save_state / undo / redo push: deep copies of three dicts
saved_state(self) ==
    [components |-> self.components, wires |-> self.wires,
     node_to_component |-> self.node_to_component]

\* CircuitCanvas.save_state
save_state_keeping_redo(self) == [self EXCEPT !.undo_stack = Append(self.undo_stack, saved_state(self))]
save_state(self) ==
    LET pushed == Append(self.undo_stack, saved_state(self))
    IN [self EXCEPT
          !.undo_stack = IF Len(pushed) > max_undo_levels THEN Tail(pushed) ELSE pushed,
          !.redo_stack = <<>>]

\* CircuitCanvas.undo
undo(self) ==
    IF self.undo_stack = <<>> THEN self
    ELSE LET prev_state == self.undo_stack[Len(self.undo_stack)]
         IN [self EXCEPT
               !.redo_stack = Append(self.redo_stack, saved_state(self)),
               !.undo_stack = SubSeq(self.undo_stack, 1, Len(self.undo_stack) - 1),
               !.components = prev_state.components,
               !.wires = prev_state.wires,
               !.node_to_component = prev_state.node_to_component,
               !.selected_component = Missing,
               !.selected_components = <<>>]

\* CircuitCanvas.redo
redo(self) ==
    IF self.redo_stack = <<>> THEN self
    ELSE LET next_state == self.redo_stack[Len(self.redo_stack)]
         IN [self EXCEPT
               !.undo_stack = Append(self.undo_stack, saved_state(self)),
               !.redo_stack = SubSeq(self.redo_stack, 1, Len(self.redo_stack) - 1),
               !.components = next_state.components,
               !.wires = next_state.wires,
               !.node_to_component = next_state.node_to_component,
               !.selected_component = Missing,
               !.selected_components = <<>>]

\* CircuitCanvas.add_wire: the returned wire id is Missing for None
add_wire(self, from_node, to_node) ==
    IF from_node \in DOMAIN self.nodes /\ to_node \in DOMAIN self.nodes
    THEN LET saved == save_state(self)
         IN [self |-> [saved EXCEPT
                         !.wires = SetItem(saved.wires, saved.wire_counter,
                                           CanvasWire(from_node, to_node)),
                         !.wire_counter = saved.wire_counter + 1],
             returned |-> self.wire_counter, raised |-> FALSE]
    ELSE [self |-> self, returned |-> Missing, raised |-> FALSE]

\* CircuitCanvas.select_component
select_component(self, comp_id) ==
    LET sel == self.selected_component
        cleared == IF sel # Missing /\ sel \in DOMAIN self.components
                   THEN [self.components EXCEPT ![sel].selected = FALSE]
                   ELSE self.components
    IN [self EXCEPT
          !.selected_component = comp_id,
          !.components = IF comp_id # Missing /\ comp_id \in DOMAIN cleared
                         THEN [cleared EXCEPT ![comp_id].selected = TRUE]
                         ELSE cleared]

\* round(v / self.grid_size) * self.grid_size
snap(v) == round_div_20(v) * grid_size

\* CircuitCanvas._node_belongs_to_component
_node_belongs_to_component(node, comp) ==
    \E i \in 1..Len(get_ports(comp)) :
        /\ Abs(node.x - get_ports(comp)[i][1]) < 1
        /\ Abs(node.y - get_ports(comp)[i][2]) < 1

\* CircuitCanvas.move_component
move_component(self, comp_id, dx, dy) ==
    IF comp_id \notin DOMAIN self.components THEN self
    ELSE LET comp == self.components[comp_id]
             new_x == IF self.snap_to_grid THEN snap(comp.x + dx) ELSE comp.x + dx
             new_y == IF self.snap_to_grid THEN snap(comp.y + dy) ELSE comp.y + dy
             moved == [comp EXCEPT !.x = new_x, !.y = new_y]
         IN [self EXCEPT
               !.components = [self.components EXCEPT ![comp_id] = moved],
               !.nodes = [nid \in DOMAIN self.nodes |->
                            IF _node_belongs_to_component(self.nodes[nid], moved)
                            THEN CanvasNode(new_x, new_y) ELSE self.nodes[nid]]]

\* CircuitCanvas._on_cut: the clipboard takes the component, the canvas loses
\* it; nodes, node_to_component and wires are not touched
_on_cut(self, comp_id) ==
    IF comp_id \notin DOMAIN self.components THEN self
    ELSE [self EXCEPT
            !.clipboard.components = <<self.components[comp_id]>>,
            !.components = Without(self.components, {comp_id})]

\* `wire[0] in nodes_to_delete or wire[1] in nodes_to_delete` of _on_delete:
\* `wire` iterates over the keys of the dict self.wires, so wire[0] and wire[1]
\* are the characters "w" and "i" of "wire_<k>", and no node id is a character
wire_key_names_node(wire_id, nodes_to_delete) == FALSE

\* CircuitCanvas._on_delete; a non-empty wires_to_delete would raise
\* AttributeError at self.wires.remove
_on_delete(self, comp_id) ==
    IF comp_id \notin DOMAIN self.components THEN [self |-> self, raised |-> FALSE]
    ELSE LET nodes_to_delete == nodes_of(self, comp_id)
             wires_to_delete == {w \in DOMAIN self.wires :
                                    wire_key_names_node(w, nodes_to_delete)}
         IN IF wires_to_delete # {} THEN [self |-> self, raised |-> TRUE]
            ELSE [self |-> [self EXCEPT
                     !.nodes = Without(self.nodes, nodes_to_delete),
                     !.node_to_component = Without(self.node_to_component, nodes_to_delete),
                     !.components = Without(self.components, {comp_id}),
                     !.selected_component =
                         IF self.selected_component = comp_id THEN Missing
                         ELSE self.selected_component],
                  raised |-> FALSE]

\* the loop `for comp_id in self.selected_components: del self.components[comp_id]`
RECURSIVE delete_selected(_, _, _)
delete_selected(components, selected, k) ==
    IF k > Len(selected) THEN [components |-> components, raised |-> FALSE]
    ELSE IF selected[k] \notin DOMAIN components
    THEN [components |-> components, raised |-> TRUE]
    ELSE delete_selected(Without(components, {selected[k]}), selected, k + 1)

\* CircuitCanvas.keyPressEvent with Qt.Key_Delete; del self.components[comp_id]
\* raises KeyError when the selection is no longer a component
keyPressEvent_Delete(self) ==
    LET sel == self.selected_component
        InSelection == \E k \in 1..Len(self.selected_components) :
                          self.selected_components[k] = sel
    IN IF sel # Missing /\ ~InSelection
       THEN IF sel \notin DOMAIN self.components
            THEN [self |-> self, raised |-> TRUE]
            ELSE [self |-> [self EXCEPT !.components = Without(self.components, {sel}),
                                        !.selected_component = Missing],
                  raised |-> FALSE]
       ELSE IF self.selected_components # <<>>
       THEN LET d == delete_selected(self.components, self.selected_components, 1)
            IN [self |-> [self EXCEPT
                            !.components = d.components,
                            !.selected_components =
                                IF d.raised THEN self.selected_components ELSE <<>>],
                raised |-> d.raised]
       ELSE [self |-> self, raised |-> FALSE]

\* CircuitCanvas.copy: the clipboard holds deep copies
copy(self, comp_id) ==
    IF comp_id \notin DOMAIN self.components THEN self
    ELSE [self EXCEPT !.clipboard =
            [components |-> <<self.components[comp_id]>>,
             nodes |-> {self.nodes[nid] :
                          nid \in nodes_of(self, comp_id) \cap DOMAIN self.nodes},
             wires |-> <<>>]]

\* CircuitCanvas.cut
cut(self, comp_id) ==
    IF comp_id \notin DOMAIN self.components THEN [self |-> self, raised |-> FALSE]
    ELSE _on_delete(save_state(copy(self, comp_id)), comp_id)

\* the loop of paste over self.clipboard["components"]
RECURSIVE paste_loop(_, _, _, _, _)
paste_loop(self, copied, k, offset_x, offset_y) ==
    IF k > Len(copied) THEN self
    ELSE LET new_comp_id == next_comp_id(self.components)
             new_comp == [copied[k] EXCEPT !.comp_id = new_comp_id,
                                           !.x = @ + offset_x, !.y = @ + offset_y,
                                           !.selected = FALSE]
             placed == [self EXCEPT !.components =
                           SetItem(self.components, new_comp_id, new_comp)]
         IN paste_loop(_add_component_nodes(placed, new_comp_id), copied, k + 1,
                       offset_x, offset_y)

\* CircuitCanvas.paste
paste(self, offset_x, offset_y) ==
    IF self.clipboard.components = <<>> THEN self
    ELSE paste_loop(save_state(self), self.clipboard.components, 1, offset_x, offset_y)

\* MainWindow.delete
delete(self) ==
    IF self.selected_component = Missing THEN [self |-> self, raised |-> FALSE]
    ELSE _on_delete(save_state(self), self.selected_component)

\* MainWindow.action_toggle_snap_to_grid
action_toggle_snap_to_grid(self) == [self EXCEPT !.snap_to_grid = ~self.snap_to_grid]

\* ========================================================== project manager
\* Project / ProjectManager (backend/circuit/project_manager.py).  A Path is
\* modelled by its final component (Path.name) under one parent directory; a
\* file of the file system is the pair <<directory, stem>> of the directory
\* it lies in and its name without the ".vedproj" suffix.
ProjectNames == {"amp", "filter"}

\* Path.home() / ".ved" / "projects" / name
DefaultPath(name) == [name |-> name]

ProjectPaths == {DefaultPath(n) : n \in ProjectNames}

NoPath == [name |-> "None"]

\* Project.__init__(name, path): path or the default path
Project(name, path) ==
    [name |-> name, path |-> IF path = NoPath THEN DefaultPath(name) ELSE path,
     version |-> "0.1.0"]

NoProject == [name |-> "None", path |-> NoPath, version |-> "None"]

\* Project.to_dict: the dict that json.dump writes
to_dict(project) == [name |-> project.name, version |-> project.version]

\* Project.from_dict: cls(data["name"]) and the fields read back
from_dict(data) == [Project(data.name, NoPath) EXCEPT !.version = data.version]

\* path / f"{stem}.vedproj"
ProjectFile(path, stem) == <<path.name, stem>>

\* the file save_project writes: project.path / f"{project.name}.vedproj"
saved_file(project) == ProjectFile(project.path, project.name)

\* the file load_project reads: path / f"{path.name}.vedproj"
loaded_file(path) == ProjectFile(path, path.name)

\* ProjectManager.create_project
create_project(name) == Project(name, NoPath)

\* ProjectManager.save_project; io_ok is whether open(..., 'w') and json.dump
\* succeed
save_project(files, project, current_project, io_ok) ==
    LET p == IF project # NoProject THEN project ELSE current_project
    IN IF p = NoProject THEN [files |-> files, returned |-> FALSE, project |-> p]
       ELSE IF io_ok
       THEN [files |-> SetItem(files, saved_file(p), to_dict(p)), returned |-> TRUE,
             project |-> p]
       ELSE [files |-> files, returned |-> FALSE, project |-> p]

\* ProjectManager.load_project
load_project(files, path) ==
    LET project_file == loaded_file(path)
    IN IF project_file \notin DOMAIN files
       THEN [raised |-> TRUE, project |-> NoProject]
       ELSE [raised |-> FALSE,
             project |-> [from_dict(files[project_file]) EXCEPT !.path = path]]

\* ============================================================ script engine
\* ScriptExecutionThread.run (backend/scripting/script_engine.py): the
\* statements of run() that read or write sys.stdout / sys.stderr, one step
\* each; a thread is a record of its position and its locals.  A stream is a
\* pair of its kind and the thread that owns it (0 for the streams installed
\* before any thread started).
OriginalStdout == <<"original_stdout", 0>>
OriginalStderr == <<"original_stderr", 0>>

\* self.output_buffer / self.error_buffer of thread t
output_buffer(t) == <<"output_buffer", t>>
error_buffer(t) == <<"error_buffer", t>>

NoStream == <<"unset", 0>>

NewThread == [pc |-> "created", old_stdout |-> NoStream, old_stderr |-> NoStream,
              outcome |-> "none"]

\* old_stdout = sys.stdout
save_stdout(thread, streams) == [thread EXCEPT !.old_stdout = streams.stdout,
                                               !.pc = "save_stderr"]

\* old_stderr = sys.stderr
save_stderr(thread, streams) == [thread EXCEPT !.old_stderr = streams.stderr,
                                               !.pc = "set_stdout"]

\* sys.stdout = old_stdout, in the try body and in both except clauses
restored_stdout(thread) == thread.old_stdout

\* sys.stderr = old_stderr
restored_stderr(thread) == thread.old_stderr

\* =============================================================== mesh search
\* _find_meshes and _find_cycle of CircuitAnalyzer executed call by call: a
\* search is a record of the loop position of _find_meshes (i, k, visited_edges,
\* meshes), the start component of the _find_cycle calls in progress and the
\* stack of these calls (one frame per call: next_node, new_path and the
\* position k in its loop over the neighbours).
NoSearch ==
    [pc |-> "idle", components |-> <<>>, adjacency_list |-> EmptyAdjacency,
     i |-> 1, k |-> 1, visited_edges |-> {}, meshes |-> <<>>, start |-> None,
     stack |-> <<>>]

\* _find_meshes entered with self.adjacency_list built
begin_find_meshes(components, adjacency_list) ==
    [NoSearch EXCEPT !.pc = "loop", !.components = components,
                     !.adjacency_list = adjacency_list]

\* a _find_cycle call returns `cycle` (<<>> for None) to the caller on top of
\* the stack: a calling _find_cycle returns a cycle at once (`if cycle: return
\* cycle`) and goes on with its next neighbour after None; _find_meshes keeps
\* a cycle longer than 2 and goes on with the next neighbour
RECURSIVE find_cycle_return(_, _)
find_cycle_return(s, cycle) ==
    LET depth == Len(s.stack)
    IN IF depth = 0
       THEN [s EXCEPT !.pc = "loop", !.k = s.k + 1,
                      !.meshes = IF cycle # <<>> /\ Len(cycle) > 2
                                 THEN Append(s.meshes, cycle) ELSE s.meshes]
       ELSE IF cycle # <<>>
       THEN find_cycle_return([s EXCEPT !.stack = SubSeq(s.stack, 1, depth - 1)], cycle)
       ELSE [s EXCEPT !.pc = "frame", !.stack[depth].k = s.stack[depth].k + 1]

\* new_path = path + [next_node]
forgotten_extension(path, next_node) == path
extended_path(path, next_node) == Append(path, next_node)

\* _find_cycle(start, next_node, components, path) is called: it returns at
\* once, or becomes a frame that loops over the neighbours of next_node; the
\* interpreter raises RecursionError when the calls nest too deep
find_cycle_call(s, next_node, path) ==
    IF InList(next_node, path) /\ Len(path) > 2
    THEN find_cycle_return(s, SubSeq(path, IndexOf(next_node, path), Len(path))
                                 \o <<next_node>>)
    ELSE IF InList(next_node, path) THEN find_cycle_return(s, <<>>)
    ELSE IF Len(s.stack) >= MaxStackDepth THEN [s EXCEPT !.pc = "recursion_error"]
    ELSE [s EXCEPT !.pc = "frame",
                   !.stack = Append(s.stack,
                                [next_node |-> next_node,
                                 new_path |-> extended_path(path, next_node),
                                 k |-> 1])]

\* one iteration of the nested loops of _find_meshes: the next neighbour of
\* the current start_comp, which is skipped, or handed to _find_cycle
find_meshes_step(s) ==
    IF s.i > Len(s.components) THEN [s EXCEPT !.pc = "done"]
    ELSE LET start_comp == s.components[s.i].id
             neighbors == AdjacencyGet(s.adjacency_list, start_comp)
         IN IF s.k > Len(neighbors) THEN [s EXCEPT !.i = s.i + 1, !.k = 1]
            ELSE LET neighbor == neighbors[s.k]
                     edge == SortedEdge(start_comp, neighbor)
                 IN IF edge_seen(edge, s.visited_edges) THEN [s EXCEPT !.k = s.k + 1]
                    ELSE find_cycle_call(
                            [s EXCEPT !.visited_edges = s.visited_edges \cup {edge},
                                      !.start = start_comp],
                            neighbor, <<start_comp>>)

\* one iteration of `for neighbor in self.adjacency_list.get(next_node, [])` in
\* the innermost active call
find_cycle_step(s) ==
    LET depth == Len(s.stack)
        frame == s.stack[depth]
        neighbors == AdjacencyGet(s.adjacency_list, frame.next_node)
        returning == [s EXCEPT !.stack = SubSeq(s.stack, 1, depth - 1)]
    IN IF frame.k > Len(neighbors) THEN find_cycle_return(returning, <<>>)
       ELSE LET neighbor == neighbors[frame.k]
            IN IF neighbor = s.start /\ Len(frame.new_path) > 2
               THEN find_cycle_return(returning, frame.new_path)
               ELSE IF ~InList(neighbor, frame.new_path)
               THEN find_cycle_call(s, neighbor, frame.new_path)
               ELSE [s EXCEPT !.stack[depth].k = frame.k + 1]

\* =============================================================== main window
\* object held in CircuitCanvas.components (a CanvasComponent, not a dict)
CanvasComponent(i, t) == [comp_id |-> i, comp_type |-> t]

CanvasTypes == {"Resistor", "VoltageSource", "Ground"}

\* MainWindow._get_circuit_data: the components dict holds the canvas objects
\* themselves and list(self.circuit_canvas.wires) is the list of the keys
\* (wire id strings) of the wires dict
_get_circuit_data(cv) ==
    CircuitData(
        [i \in 1..Len(cv.components) |->
            Component(cv.components[i].comp_id, cv.components[i].comp_type, FALSE)],
        [j \in 1..Len(cv.wires) |-> NonDictWire])

\* LogLevel chosen by run_simulation for a validation issue
IssueLogLevel(issue) == IF issue.level = "warning" THEN "WARNING" ELSE "ERROR"

LogEntry(text, lv) == [text |-> text, level |-> lv]

\* ==================================================================== state
VARIABLES
    circuit_data,       \* the netlist handed to the last validator / analyzer call
    issues,             \* CircuitValidator.issues (the returned list is this list)
    validation,         \* outcome of the last validate_circuit call
    adjacency_list,     \* CircuitAnalyzer.adjacency_list
    node_mapping,       \* CircuitAnalyzer.node_mapping
    analysis,           \* outcome of the last analyze_circuit call
    canvas,             \* CircuitCanvas.components / .wires
    simulation_engine,  \* MainWindow.simulation_engine
    status_bar,         \* last message shown in the status bar
    signals,            \* signals emitted by MainWindow, in order
    console,            \* console log
    engine_runs,        \* number of calls of simulation_engine.run()
    run_requests,       \* number of calls of MainWindow.run_simulation
    last_request,       \* what the last run_simulation call did
    config,             \* SimulationEngine.config
    result,             \* SimulationEngine.result
    is_running,         \* SimulationEngine.is_running
    callbacks,          \* SimulationEngine.callbacks, each by what it does when called
    notified,           \* the calls of callbacks made by the last run()
    calls,              \* per caller: the configuration it set up, what its run() gave
    progress,           \* position of a run() that is executed point by point
    circuit_nodes,      \* Circuit.nodes: node id -> Node.connected_components
    circuit_components, \* Circuit.components: component id -> Component.nodes
    last_connect,       \* what the last Circuit.connect call did
    circuit_canvas,     \* the CircuitCanvas object
    canvas_call,        \* the last canvas operation, and the canvas before it
    project_files,      \* the .vedproj files on disk: <<directory, stem>> -> contents
    project,            \* the Project object the caller holds
    current_project,    \* ProjectManager.current_project
    project_call,       \* what the last ProjectManager call did
    sys_streams,        \* sys.stdout and sys.stderr
    script_threads,     \* the ScriptExecutionThread objects
    mesh_search         \* the _find_meshes call being executed

vars == <<circuit_data, issues, validation, adjacency_list, node_mapping, analysis, canvas,
          simulation_engine, status_bar, signals, console, engine_runs,
          run_requests, last_request, config, result, is_running, callbacks, notified,
          calls, progress, circuit_nodes, circuit_components, last_connect,
          circuit_canvas, canvas_call, project_files, project, current_project,
          project_call, sys_streams, script_threads, mesh_search>>

engine_vars == <<config, result, is_running, callbacks, notified, calls, progress>>
netlist_vars == <<circuit_nodes, circuit_components, last_connect>>
editor_vars == <<circuit_canvas, canvas_call>>
project_vars == <<project_files, project, current_project, project_call>>
script_vars == <<sys_streams, script_threads>>
session_vars == <<editor_vars, project_vars, script_vars, mesh_search>>

validator_vars == <<issues, validation>>
analyzer_vars == <<adjacency_list, node_mapping, analysis>>
window_vars == <<canvas, simulation_engine, status_bar, signals, console,
                 engine_runs, run_requests, last_request>>

NoValidation == [state |-> "none", is_valid |-> FALSE]
NoAnalysis == [state |-> "none", result |-> analyze_result(<<>>, <<>>, EmptyAdjacency)]
NoRequest == [validated |-> "none", run_invoked |-> FALSE, finished |-> FALSE]

\* CircuitValidator.__init__
ValidatorInit == issues = <<>> /\ validation = NoValidation

\* CircuitAnalyzer.__init__
AnalyzerInit ==
    adjacency_list = EmptyAdjacency /\ node_mapping = EmptyMapping /\ analysis = NoAnalysis

\* MainWindow.__init__ with a canvas `cv`
WindowInit(cv) ==
    /\ canvas = cv
    /\ simulation_engine = None
    /\ status_bar = "Ready"
    /\ signals = <<>>
    /\ console = <<>>
    /\ engine_runs = 0
    /\ run_requests = 0
    /\ last_request = NoRequest

EmptyCanvas == [components |-> <<>>, wires |-> <<>>]

\* the callers of the engine
Callers == {1, 2}

NoCall == [state |-> "idle", asked |-> NoConfig, returned |-> NoResult]
NoProgress == [state |-> "idle", total |-> 0, points |-> 0, stop_requested |-> FALSE]

\* SimulationEngine.__init__
EngineInit ==
    /\ config = NoConfig
    /\ result = NoResult
    /\ is_running = FALSE
    /\ callbacks = <<>>
    /\ notified = <<>>
    /\ calls = [c \in Callers |-> NoCall]
    /\ progress = NoProgress

\* absent key of Circuit.nodes / Circuit.components
EmptyDict == [k \in {} |-> <<>>]

NoConnect == [called |-> FALSE, node_known |-> FALSE, component_known |-> FALSE,
              raised |-> FALSE, bound |-> FALSE]

\* Circuit.__init__
CircuitInit ==
    /\ circuit_nodes = EmptyDict
    /\ circuit_components = EmptyDict
    /\ last_connect = NoConnect

\* a canvas as the claims compare it: the three dicts that undo restores, and
\* the nodes
Snapshot(self) ==
    [components |-> self.components, wires |-> self.wires,
     node_to_component |-> self.node_to_component, nodes |-> self.nodes]

NoCanvasCall ==
    [op |-> "none", comp_id |-> Missing, dx |-> 0, dy |-> 0, returned |-> Missing,
     raised |-> FALSE, changed |-> FALSE, before |-> Snapshot(NewCanvas),
     prev_op |-> "none", prev_changed |-> FALSE, prev_before |-> Snapshot(NewCanvas),
     ops |-> 0]

\* CircuitCanvas.__init__
CanvasInit == circuit_canvas = NewCanvas /\ canvas_call = NoCanvasCall

NoProjectCall == [op |-> "none", project |-> NoProject, path |-> NoPath,
                  returned |-> FALSE, raised |-> FALSE, loaded |-> NoProject,
                  saved |-> NoProject]

\* ProjectManager.__init__ on a projects directory without project files
ProjectInit ==
    /\ project_files = [f \in {} |-> 0]
    /\ project = NoProject
    /\ current_project = NoProject
    /\ project_call = NoProjectCall

\* the interpreter's streams, and the threads as constructed
ScriptInit ==
    /\ sys_streams = [stdout |-> OriginalStdout, stderr |-> OriginalStderr]
    /\ script_threads = [t \in 1..MaxScriptThreads |-> NewThread]

\* ----------------------------------------------------------------- inputs
\* wire endpoints of a netlist with n components: None, the n components and
\* one id that is not a component
WireValues(n) ==
    {DictWire(f, t) : f \in 0..(n + 1), t \in 0..(n + 1)} \cup {NonDictWire}

\* an assignment of types to n components; the validator reads the types only
\* through any(...), so one order per multiset of types is drawn
TypeRank(t) == CASE t = "Ground" -> 1 [] t = "voltage_source" -> 2 [] OTHER -> 3
TypeAssignments(n) ==
    {ty \in [1..n -> ComponentTypes] :
        \A i \in 1..n : \A j \in 1..n : i <= j => TypeRank(ty[i]) <= TypeRank(ty[j])}

\* the netlists with n components handed to the validator
ValidatorInputs(n) ==
    LET wss == SeqsUpTo(WireValues(n), MaxValidatorWires)
    IN {CircuitData([i \in 1..n |-> Component(i, x[1][i], TRUE)], x[2]) :
            x \in TypeAssignments(n) \X wss}

\* ids a wire of an analyzer netlist with n components can name: the n
\* components and, while the id universe 1..MaxAnalyzerComps has one left, an
\* id that is not a component
AnalyzerEndpoints(n) == 1..(IF n < MaxAnalyzerComps THEN n + 1 ELSE n)

\* the netlists with n components handed to the analyzer
AnalyzerInputs(n) ==
    {CircuitData([i \in 1..n |-> Component(i, "resistor", TRUE)], ws) :
        ws \in SeqsUpTo({DictWire(f, t) : f \in AnalyzerEndpoints(n),
                                          t \in AnalyzerEndpoints(n)},
                        MaxAnalyzerWires)}

\* the netlists with n placed components handed to the analyzer: each
\* component is a dict or an object of the canvas, at a position of its own
PlacedInputs(n) ==
    {CircuitData([i \in 1..n |->
                     PlacedComponent(i, "resistor", pl[i][1], pl[i][2], pl[i][3])], <<>>) :
        pl \in [1..n -> BOOLEAN \X Coordinates \X {0, 30}]}

\* the canvases with n components
CanvasStates(n) ==
    {[components |-> [i \in 1..n |-> CanvasComponent(i, ty[i])],
      wires |-> [j \in 1..m |-> j]] :
        ty \in [1..n -> CanvasTypes], m \in 0..MaxCanvasWires}

\* ------------------------------------------------------------------ actions
\* one call validator.validate_circuit(cd)
Validate(cd) ==
    \E order \in Perms(check_loops_unvisited(cd.components, cd.wires)) :
        LET v == validate_circuit(issues, cd, order)
        IN /\ circuit_data' = cd
           /\ issues' = v.issues
           /\ validation' = [state |-> IF v.raised THEN "raised" ELSE "returned",
                             is_valid |-> v.is_valid]

\* CircuitValidator.validate_circuit on a netlist of the caller's choice; a
\* validator that has been used is next handed the netlist of a cleared circuit
ValidateCircuit ==
    /\ IF validation.state = "none"
       THEN \E n \in 0..MaxValidatorComps : \E cd \in ValidatorInputs(n) : Validate(cd)
       ELSE Validate(EmptyCircuit)
    /\ UNCHANGED <<analyzer_vars, window_vars, engine_vars, netlist_vars, session_vars>>

\* CircuitAnalyzer.analyze_circuit(cd)
Analyze(cd) ==
    LET components == cd.components
        wires == cd.wires
        adj == _build_adjacency_list(adjacency_list, components, wires)
    IN /\ circuit_data' = cd
       /\ adjacency_list' = adj
       /\ node_mapping' = _number_nodes(node_mapping, components)
       /\ analysis' = [state |-> "returned",
                       result |-> analyze_result(components, wires, adj)]

\* CircuitAnalyzer.analyze_circuit on a netlist of the caller's choice; an
\* analyzer that has been used is next handed the netlist of a cleared circuit
AnalyzeCircuit ==
    /\ IF analysis.state = "none"
       THEN \E n \in 0..MaxAnalyzerComps : \E cd \in AnalyzerInputs(n) : Analyze(cd)
       ELSE Analyze(EmptyCircuit)
    /\ UNCHANGED <<validator_vars, window_vars, engine_vars, netlist_vars, session_vars>>

\* CircuitAnalyzer.analyze_circuit on a netlist of placed components
AnalyzePlaced ==
    /\ analysis.state = "none"
    /\ \E n \in 0..MaxPlacedComps : \E cd \in PlacedInputs(n) : Analyze(cd)
    /\ UNCHANGED <<validator_vars, window_vars, engine_vars, netlist_vars, session_vars>>

\* CircuitAnalyzer.analyze_circuit once more on the unchanged netlist
AnalyzeAgain ==
    /\ analysis.state = "returned"
    /\ Analyze(circuit_data)
    /\ UNCHANGED <<validator_vars, window_vars, engine_vars, netlist_vars, session_vars>>

\* MainWindow.run_simulation
RunSimulation ==
    /\ run_requests < MaxRuns
    /\ run_requests' = run_requests + 1
    /\ LET cd == _get_circuit_data(canvas)
       IN \E order \in Perms(check_loops_unvisited(cd.components, cd.wires)),
             engine_ok \in BOOLEAN :
          LET v == validate_circuit(issues, cd, order)
              started == Append(signals, "simulation_started")
              logged == console \o [i \in 1..Len(v.issues) |->
                            LogEntry(v.issues[i].message.text, IssueLogLevel(v.issues[i]))]
          IN /\ circuit_data' = cd
             /\ issues' = v.issues
             /\ validation' = [state |-> IF v.raised THEN "raised" ELSE "returned",
                               is_valid |-> v.is_valid]
             /\ IF v.raised
                THEN \* except Exception as e
                     /\ console' = Append(console, LogEntry("Simulation error", "ERROR"))
                     /\ status_bar' = "Simulation error"
                     /\ signals' = started
                     /\ engine_runs' = engine_runs
                     /\ last_request' = [validated |-> "raised", run_invoked |-> FALSE,
                                         finished |-> FALSE]
                ELSE IF ~v.is_valid
                THEN /\ console' = Append(logged,
                            LogEntry("Simulation cancelled due to circuit errors", "ERROR"))
                     /\ status_bar' = "Simulation failed - circuit errors"
                     /\ signals' = started
                     /\ engine_runs' = engine_runs
                     /\ last_request' = [validated |-> "invalid", run_invoked |-> FALSE,
                                         finished |-> FALSE]
                ELSE IF simulation_engine # None
                THEN \* setup_dc_analysis(); result = run()
                     /\ engine_runs' = engine_runs + 1
                     /\ console' = Append(logged,
                            IF engine_ok
                            THEN LogEntry("Simulation completed successfully", "INFO")
                            ELSE LogEntry("Simulation failed", "ERROR"))
                     /\ status_bar' = IF engine_ok THEN "Simulation complete"
                                      ELSE "Simulation failed"
                     /\ signals' = Append(started, "simulation_finished")
                     /\ last_request' = [validated |-> "valid", run_invoked |-> TRUE,
                                         finished |-> TRUE]
                ELSE /\ engine_runs' = engine_runs
                     /\ console' = logged
                     /\ status_bar' = "Running simulation..."
                     /\ signals' = Append(started, "simulation_finished")
                     /\ last_request' = [validated |-> "valid", run_invoked |-> FALSE,
                                         finished |-> TRUE]
    /\ UNCHANGED <<analyzer_vars, canvas, simulation_engine, engine_vars, netlist_vars, session_vars>>

\* MainWindow.pause_simulation
PauseSimulation ==
    /\ status_bar' = "Simulation paused"
    /\ UNCHANGED <<circuit_data, validator_vars, analyzer_vars, canvas, simulation_engine,
                   signals, console, engine_runs, run_requests, last_request,
                   engine_vars, netlist_vars, session_vars>>

\* MainWindow.stop_simulation
StopSimulation ==
    /\ status_bar' = "Simulation stopped"
    /\ UNCHANGED <<circuit_data, validator_vars, analyzer_vars, canvas, simulation_engine,
                   signals, console, engine_runs, run_requests, last_request,
                   engine_vars, netlist_vars, session_vars>>

\* the frame of the engine's operations
EngineFrame ==
    UNCHANGED <<circuit_data, validator_vars, analyzer_vars, window_vars, netlist_vars, session_vars>>

\* self.config = config at the end of every setup_* method, called by caller c
Setup(c, cfg) ==
    /\ config' = cfg
    /\ calls' = [calls EXCEPT ![c] = [state |-> "configured", asked |-> cfg,
                                      returned |-> NoResult]]
    /\ UNCHANGED <<result, is_running, callbacks, notified, progress>>
    /\ EngineFrame

\* SimulationEngine.setup_dc_analysis()
SetupDC(c) == Setup(c, setup_dc_analysis)

\* SimulationEngine.setup_ac_analysis(frequency_start, frequency_end)
SetupAC(c) == Setup(c, setup_ac_analysis(1, 1000))

\* time steps of the transient requests, in ticks
TimeSteps == {1, 2}

\* SimulationEngine.setup_transient_analysis(duration, time_step), the
\* duration a positive multiple of the time step
SetupTransient(c) ==
    \E m \in 1..MaxTransientSteps, time_step \in TimeSteps, excess \in {0, 1} :
        Setup(c, setup_transient_analysis(m * time_step, time_step, excess))

\* SimulationEngine.setup_parametric_sweep(parameter, start, end)
SetupParametric(c) == Setup(c, setup_parametric_sweep("resistance", 100, 10000))

\* SimulationEngine.setup_monte_carlo(samples)
SetupMonteCarlo(c) == \E samples \in 0..MaxSamples : Setup(c, setup_monte_carlo(samples))

\* SimulationEngine.register_callback(callback)
RegisterCallback ==
    /\ Len(callbacks) < MaxCallbacks
    /\ \E behaviour \in CallbackBehaviours : callbacks' = Append(callbacks, behaviour)
    /\ UNCHANGED <<config, result, is_running, notified, calls, progress>>
    /\ EngineFrame

\* what run() leaves behind when caller c calls it
RunEffects(c) ==
    LET r == run(config, result, is_running, callbacks)
    IN /\ result' = r.result
       /\ is_running' = r.is_running
       /\ notified' = r.notified
       /\ calls' = [calls EXCEPT ![c].state = IF r.raised THEN "raised" ELSE "returned",
                                 ![c].returned = IF r.raised THEN NoResult ELSE r.returned]
       /\ UNCHANGED <<config, callbacks>>

\* SimulationEngine.run() called by caller c
Run(c) ==
    /\ RunEffects(c)
    /\ UNCHANGED progress
    /\ EngineFrame

\* run() point by point: `self.is_running = True` and the entry of the analysis
RunBegin ==
    /\ progress.state = "idle"
    /\ config # NoConfig
    /\ is_running' = TRUE
    /\ progress' = [state |-> "running", total |-> points_to_compute(config),
                    points |-> 0, stop_requested |-> FALSE]
    /\ UNCHANGED <<config, result, callbacks, notified, calls>>
    /\ EngineFrame

\* one point / step / sample of the running analysis
RunPoint ==
    /\ progress.state = "running"
    /\ progress.points < progress.total
    /\ progress' = [progress EXCEPT !.points = @ + 1]
    /\ UNCHANGED <<config, result, is_running, callbacks, notified, calls>>
    /\ EngineFrame

\* the analysis returns its result and run() stores it, notifies and returns
RunEnd ==
    /\ progress.state = "running"
    /\ progress.points = progress.total
    /\ RunEffects(1)
    /\ progress' = [progress EXCEPT !.state = "done"]
    /\ EngineFrame

\* MainWindow.stop_simulation called while run() is between two points with
\* points left to compute
StopDuringRun ==
    /\ progress.state = "running"
    /\ progress.points > 0
    /\ progress.points < progress.total
    /\ status_bar' = "Simulation stopped"
    /\ progress' = [progress EXCEPT !.stop_requested = TRUE]
    /\ UNCHANGED <<circuit_data, validator_vars, analyzer_vars, canvas, simulation_engine,
                   signals, console, engine_runs, run_requests, last_request,
                   config, result, is_running, callbacks, notified, calls, netlist_vars, session_vars>>

\* the frame of the circuit model's operations
CircuitFrame ==
    UNCHANGED <<circuit_data, validator_vars, analyzer_vars, window_vars, engine_vars,
                session_vars>>

\* Circuit.add_node(node_id)
AddNode ==
    /\ \E node_id \in 1..MaxNodes : circuit_nodes' = add_node(circuit_nodes, node_id)
    /\ UNCHANGED <<circuit_components, last_connect>>
    /\ CircuitFrame

\* Circuit.add_component(comp_id, comp_type)
AddComponent ==
    /\ \E comp_id \in 1..MaxComponents :
          circuit_components' = add_component(circuit_components, comp_id)
    /\ UNCHANGED <<circuit_nodes, last_connect>>
    /\ CircuitFrame

\* Circuit.connect(node_id, comp_id), with ids that are or are not in the circuit
Connect ==
    /\ \E node_id \in 1..MaxNodes, comp_id \in 1..MaxComponents :
          LET r == connect(circuit_nodes, circuit_components, node_id, comp_id)
          IN /\ r.bound => /\ Len(circuit_nodes[node_id]) < MaxBindings
                            /\ Len(circuit_components[comp_id]) < MaxBindings
             /\ circuit_nodes' = r.nodes
             /\ circuit_components' = r.components
             /\ last_connect' = [called |-> TRUE,
                                 node_known |-> node_id \in DOMAIN circuit_nodes,
                                 component_known |-> comp_id \in DOMAIN circuit_components,
                                 raised |-> r.raised, bound |-> r.bound]
    /\ CircuitFrame

\* ----------------------------------------------------------- specifications
InitNoCall ==
    /\ circuit_data = EmptyCircuit /\ ValidatorInit /\ AnalyzerInit /\ EngineInit
    /\ CircuitInit /\ CanvasInit /\ ProjectInit /\ ScriptInit /\ mesh_search = NoSearch

\* ---------------------------------------------------------- canvas actions
CanvasFrame ==
    UNCHANGED <<circuit_data, validator_vars, analyzer_vars, window_vars, engine_vars,
                netlist_vars, project_vars, script_vars, mesh_search>>

\* the types, positions and offsets the user places and drags with
PlacedTypes == {"Resistor", "Ground"}
PlacedXs == {100, 200}
PlacedYs == {100}
MoveOffsets == {<<50, 50>>, <<20, 0>>}
PasteOffsets == {30, 50}

\* the canvas operation `op` has taken the canvas to `after`
CanvasCall(op, after, comp_id, dx, dy, returned, raised) ==
    /\ circuit_canvas' = after
    /\ canvas_call' =
          [op |-> op, comp_id |-> comp_id, dx |-> dx, dy |-> dy,
           returned |-> returned, raised |-> raised,
           changed |-> \/ after.components # circuit_canvas.components
                       \/ after.wires # circuit_canvas.wires,
           before |-> Snapshot(circuit_canvas),
           prev_op |-> canvas_call.op, prev_changed |-> canvas_call.changed,
           prev_before |-> canvas_call.before,
           ops |-> canvas_call.ops + 1]
    /\ CanvasFrame

\* an editing session is MaxCanvasOps operations long
InSession == canvas_call.ops < MaxCanvasOps

\* CircuitCanvas.add_component(comp_type, name, x, y)
PlaceComponent ==
    /\ InSession
    /\ \E comp_type \in PlacedTypes, x \in PlacedXs, y \in PlacedYs :
          LET r == canvas_add_component(circuit_canvas, comp_type, x, y)
          IN CanvasCall("add_component", r.self, Missing, 0, 0, r.returned, r.raised)

\* CircuitCanvas.add_wire(from_node, to_node), between nodes of the canvas or a
\* node id not yet given out
DrawWire ==
    /\ InSession
    /\ \E from_node, to_node \in
            (DOMAIN circuit_canvas.nodes) \cup {circuit_canvas.node_counter} :
          LET r == add_wire(circuit_canvas, from_node, to_node)
          IN CanvasCall("add_wire", r.self, Missing, 0, 0, r.returned, r.raised)

\* CircuitCanvas.select_component(comp_id)
SelectComponent ==
    /\ InSession
    /\ \E comp_id \in (DOMAIN circuit_canvas.components) \cup {Missing} :
          CanvasCall("select_component", select_component(circuit_canvas, comp_id),
                     comp_id, 0, 0, Missing, FALSE)

\* CircuitCanvas.move_component(comp_id, dx, dy)
MoveComponent ==
    /\ InSession
    /\ \E comp_id \in DOMAIN circuit_canvas.components, d \in MoveOffsets :
          CanvasCall("move_component", move_component(circuit_canvas, comp_id, d[1], d[2]),
                     comp_id, d[1], d[2], Missing, FALSE)

\* MainWindow.action_toggle_snap_to_grid
ToggleSnapToGrid ==
    /\ InSession
    /\ CanvasCall("toggle_snap_to_grid", action_toggle_snap_to_grid(circuit_canvas),
                  Missing, 0, 0, Missing, FALSE)

\* CircuitCanvas._on_cut(comp_id), from the context menu of a component
ContextCut ==
    /\ InSession
    /\ \E comp_id \in DOMAIN circuit_canvas.components :
          CanvasCall("_on_cut", _on_cut(circuit_canvas, comp_id), comp_id, 0, 0,
                     Missing, FALSE)

\* CircuitCanvas._on_delete(comp_id), from the context menu of a component
ContextDelete ==
    /\ InSession
    /\ \E comp_id \in DOMAIN circuit_canvas.components :
          LET r == _on_delete(circuit_canvas, comp_id)
          IN CanvasCall("_on_delete", r.self, comp_id, 0, 0, Missing, r.raised)

\* CircuitCanvas.keyPressEvent(Qt.Key_Delete)
PressDelete ==
    /\ InSession
    /\ LET r == keyPressEvent_Delete(circuit_canvas)
       IN CanvasCall("keyPressEvent", r.self, circuit_canvas.selected_component, 0, 0,
                     Missing, r.raised)

\* CircuitCanvas.cut(comp_id)
CutComponent ==
    /\ InSession
    /\ \E comp_id \in DOMAIN circuit_canvas.components :
          LET r == cut(circuit_canvas, comp_id)
          IN CanvasCall("cut", r.self, comp_id, 0, 0, Missing, r.raised)

\* CircuitCanvas.copy(comp_id)
CopyComponent ==
    /\ InSession
    /\ \E comp_id \in DOMAIN circuit_canvas.components :
          CanvasCall("copy", copy(circuit_canvas, comp_id), comp_id, 0, 0, Missing, FALSE)

\* CircuitCanvas.paste(offset_x, offset_y)
PasteComponent ==
    /\ InSession
    /\ \E offset \in PasteOffsets :
          CanvasCall("paste", paste(circuit_canvas, offset, offset), Missing,
                     offset, offset, Missing, FALSE)

\* MainWindow.delete
DeleteSelected ==
    /\ InSession
    /\ LET r == delete(circuit_canvas)
       IN CanvasCall("delete", r.self, circuit_canvas.selected_component, 0, 0,
                     Missing, r.raised)

\* CircuitCanvas.undo
Undo ==
    /\ InSession
    /\ CanvasCall("undo", undo(circuit_canvas), Missing, 0, 0, Missing, FALSE)

\* CircuitCanvas.redo
Redo ==
    /\ InSession
    /\ CanvasCall("redo", redo(circuit_canvas), Missing, 0, 0, Missing, FALSE)

\* ---- the undo history: save_state, undo and redo called any number of times
\* around MaxUndoEdits placements, each made while the two stacks hold at
\* most MaxEditDepth states, or as the first placement right after the
\* save_state that filled the undo stack
HistoryCall(op, after) ==
    /\ circuit_canvas' = after
    /\ canvas_call' = [canvas_call EXCEPT !.op = op]
    /\ CanvasFrame

\* CircuitCanvas.add_component("Resistor", "R1", 100, 100)
HistoryPlace ==
    /\ canvas_call.ops < MaxUndoEdits
    /\ \/ Len(circuit_canvas.undo_stack) + Len(circuit_canvas.redo_stack) <= MaxEditDepth
       \/ /\ Len(circuit_canvas.undo_stack) = max_undo_levels
          /\ canvas_call.op = "save_state"
          /\ canvas_call.ops = 0
    /\ LET r == canvas_add_component(circuit_canvas, "Resistor", 100, 100)
       IN /\ circuit_canvas' = r.self
          /\ canvas_call' = [canvas_call EXCEPT !.op = "add_component",
                                                !.ops = canvas_call.ops + 1]
          /\ CanvasFrame

\* CircuitCanvas.save_state
HistorySaveState == HistoryCall("save_state", save_state(circuit_canvas))

\* CircuitCanvas.undo
HistoryUndo == HistoryCall("undo", undo(circuit_canvas))

\* CircuitCanvas.redo
HistoryRedo == HistoryCall("redo", redo(circuit_canvas))

\* --------------------------------------------------------- project actions
ProjectFrame ==
    UNCHANGED <<circuit_data, validator_vars, analyzer_vars, window_vars, engine_vars,
                netlist_vars, editor_vars, script_vars, mesh_search>>

\* Project(name, path)
ConstructProject ==
    /\ \E name \in ProjectNames, path \in ProjectPaths \cup {NoPath} :
          /\ project' = Project(name, path)
          /\ project_call' = [NoProjectCall EXCEPT !.op = "Project",
                                                   !.project = Project(name, path)]
    /\ UNCHANGED <<project_files, current_project>>
    /\ ProjectFrame

\* ProjectManager.create_project(name)
CreateProject ==
    /\ \E name \in ProjectNames :
          /\ project' = create_project(name)
          /\ current_project' = create_project(name)
          /\ project_call' = [NoProjectCall EXCEPT !.op = "create_project",
                                                   !.project = create_project(name)]
    /\ UNCHANGED project_files
    /\ ProjectFrame

\* ProjectManager.save_project(project)
SaveProject ==
    /\ \E io_ok \in BOOLEAN :
          LET r == save_project(project_files, project, current_project, io_ok)
          IN /\ project_files' = r.files
             /\ project_call' = [NoProjectCall EXCEPT
                                    !.op = "save_project", !.project = r.project,
                                    !.returned = r.returned,
                                    !.saved = IF r.returned THEN r.project ELSE NoProject]
    /\ UNCHANGED <<project, current_project>>
    /\ ProjectFrame

\* ProjectManager.load_project(path), with the path of the project the caller
\* holds or another one
LoadProject ==
    /\ \E path \in ProjectPaths :
          LET r == load_project(project_files, path)
          IN /\ current_project' = IF r.raised THEN current_project ELSE r.project
             /\ project_call' = [NoProjectCall EXCEPT
                                    !.op = "load_project", !.path = path,
                                    !.raised = r.raised, !.loaded = r.project,
                                    !.saved = project_call.saved]
    /\ UNCHANGED <<project_files, project>>
    /\ ProjectFrame

\* ---------------------------------------------------------- script actions
ScriptFrame ==
    UNCHANGED <<circuit_data, validator_vars, analyzer_vars, window_vars, engine_vars,
                netlist_vars, editor_vars, project_vars, mesh_search>>

At(t, pc) == script_threads[t].pc = pc

\* QThread.start(): run() begins
StartScript(t) ==
    /\ At(t, "created")
    /\ script_threads' = [script_threads EXCEPT ![t].pc = "save_stdout"]
    /\ UNCHANGED sys_streams
    /\ ScriptFrame

\* old_stdout = sys.stdout
SaveStdout(t) ==
    /\ At(t, "save_stdout")
    /\ script_threads' = [script_threads EXCEPT ![t] = save_stdout(@, sys_streams)]
    /\ UNCHANGED sys_streams
    /\ ScriptFrame

\* old_stderr = sys.stderr
SaveStderr(t) ==
    /\ At(t, "save_stderr")
    /\ script_threads' = [script_threads EXCEPT ![t] = save_stderr(@, sys_streams)]
    /\ UNCHANGED sys_streams
    /\ ScriptFrame

\* sys.stdout = self.output_buffer
RedirectStdout(t) ==
    /\ At(t, "set_stdout")
    /\ sys_streams' = [sys_streams EXCEPT !.stdout = output_buffer(t)]
    /\ script_threads' = [script_threads EXCEPT ![t].pc = "set_stderr"]
    /\ ScriptFrame

\* sys.stderr = self.error_buffer
RedirectStderr(t) ==
    /\ At(t, "set_stderr")
    /\ sys_streams' = [sys_streams EXCEPT !.stderr = error_buffer(t)]
    /\ script_threads' = [script_threads EXCEPT ![t].pc = "exec"]
    /\ ScriptFrame

\* exec(self.script_code, exec_context): the script ends, or raises and the
\* except clause is entered
ExecScript(t) ==
    /\ At(t, "exec")
    /\ \E outcome \in {"finished", "raised"} :
          script_threads' = [script_threads EXCEPT ![t].pc = "restore_stdout",
                                                   ![t].outcome = outcome]
    /\ UNCHANGED sys_streams
    /\ ScriptFrame

\* sys.stdout = old_stdout
RestoreStdout(t) ==
    /\ At(t, "restore_stdout")
    /\ sys_streams' = [sys_streams EXCEPT !.stdout = restored_stdout(script_threads[t])]
    /\ script_threads' = [script_threads EXCEPT ![t].pc = "restore_stderr"]
    /\ ScriptFrame

\* sys.stderr = old_stderr; execution_finished is emitted and run() returns
RestoreStderr(t) ==
    /\ At(t, "restore_stderr")
    /\ sys_streams' = [sys_streams EXCEPT !.stderr = restored_stderr(script_threads[t])]
    /\ script_threads' = [script_threads EXCEPT ![t].pc = "finished"]
    /\ ScriptFrame

\* ------------------------------------------------------ mesh search actions
SearchFrame ==
    UNCHANGED <<circuit_data, validator_vars, analyzer_vars, window_vars, engine_vars,
                netlist_vars, editor_vars, project_vars, script_vars>>

\* the netlists with n components whose meshes are searched.  A wire between
\* a and b and the wire between b and a append the same entries to the same
\* adjacency lists, and a wire that names an id that is not a component
\* appends none, so the wires are drawn in one direction and between
\* components.
MeshInputs(n) ==
    {CircuitData([i \in 1..n |-> Component(i, "resistor", TRUE)], ws) :
        ws \in SeqsUpTo({w \in {DictWire(f, t) : f \in 1..n, t \in 1..n} :
                             w.from <= w.to},
                        MaxMeshWires)}

\* analyze_circuit has built the adjacency list and calls _find_meshes
BeginMeshSearch ==
    /\ mesh_search.pc = "idle"
    /\ \E n \in 0..MaxMeshComps : \E cd \in MeshInputs(n) :
          mesh_search' = begin_find_meshes(cd.components,
              _build_adjacency_list(EmptyAdjacency, cd.components, cd.wires))
    /\ SearchFrame

\* the loops of _find_meshes advance
FindMeshesStep ==
    /\ mesh_search.pc = "loop"
    /\ mesh_search' = find_meshes_step(mesh_search)
    /\ SearchFrame

\* the loop of the innermost _find_cycle call advances
FindCycleStep ==
    /\ mesh_search.pc = "frame"
    /\ mesh_search' = find_cycle_step(mesh_search)
    /\ SearchFrame

InitValidator == InitNoCall /\ WindowInit(EmptyCanvas)

NextValidator == ValidateCircuit

SpecValidator == InitValidator /\ [][NextValidator]_vars

InitAnalyzer == InitNoCall /\ WindowInit(EmptyCanvas)

NextAnalyzer == AnalyzeCircuit

SpecAnalyzer == InitAnalyzer /\ [][NextAnalyzer]_vars

InitNumbering == InitNoCall /\ WindowInit(EmptyCanvas)

NextNumbering == AnalyzePlaced \/ AnalyzeAgain

SpecNumbering == InitNumbering /\ [][NextNumbering]_vars

\* one caller sets up analyses, registers callbacks and runs, in any order
InitEngine == InitNoCall /\ WindowInit(EmptyCanvas)

NextEngine ==
    \/ SetupDC(1)
    \/ SetupAC(1)
    \/ SetupTransient(1)
    \/ SetupParametric(1)
    \/ SetupMonteCarlo(1)
    \/ RegisterCallback
    \/ Run(1)

SpecEngine == InitEngine /\ [][NextEngine]_vars

\* two callers each set up an analysis and then run it, in any interleaving
InitRequests == InitNoCall /\ WindowInit(EmptyCanvas)

RequestSetup(c) ==
    /\ calls[c].state = "idle"
    /\ \/ SetupDC(c)
       \/ SetupAC(c)
       \/ SetupTransient(c)
       \/ SetupParametric(c)
       \/ SetupMonteCarlo(c)

RequestRun(c) == calls[c].state = "configured" /\ Run(c)

NextRequests == \E c \in Callers : RequestSetup(c) \/ RequestRun(c)

SpecRequests == InitRequests /\ [][NextRequests]_vars

\* one caller sets up a multi-point analysis and runs it point by point while
\* the window's stop_simulation may be called
InitCancel == InitNoCall /\ WindowInit(EmptyCanvas)

CancelSetup ==
    /\ calls[1].state = "idle"
    /\ \/ SetupAC(1)
       \/ SetupTransient(1)
       \/ SetupParametric(1)
       \/ SetupMonteCarlo(1)

NextCancel == CancelSetup \/ RunBegin \/ RunPoint \/ StopDuringRun \/ RunEnd

SpecCancel == InitCancel /\ [][NextCancel]_vars

InitCircuit == InitNoCall /\ WindowInit(EmptyCanvas)

NextCircuit == AddNode \/ AddComponent \/ Connect

SpecCircuit == InitCircuit /\ [][NextCircuit]_vars

InitWindow ==
    /\ InitNoCall
    /\ \E n \in 0..MaxCanvasComps : \E cv \in CanvasStates(n) : WindowInit(cv)

NextWindow == RunSimulation \/ PauseSimulation \/ StopSimulation

SpecWindow == InitWindow /\ [][NextWindow]_vars

InitCanvas == InitNoCall /\ WindowInit(EmptyCanvas)

NextCanvas ==
    \/ PlaceComponent \/ DrawWire \/ SelectComponent \/ MoveComponent \/ ToggleSnapToGrid
    \/ ContextCut \/ ContextDelete \/ PressDelete \/ CutComponent \/ CopyComponent
    \/ PasteComponent \/ DeleteSelected \/ Undo \/ Redo

SpecCanvas == InitCanvas /\ [][NextCanvas]_vars

InitHistory == InitNoCall /\ WindowInit(EmptyCanvas)

NextHistory == HistoryPlace \/ HistorySaveState \/ HistoryUndo \/ HistoryRedo

SpecHistory == InitHistory /\ [][NextHistory]_vars

InitProject == InitNoCall /\ WindowInit(EmptyCanvas)

NextProject == ConstructProject \/ CreateProject \/ SaveProject \/ LoadProject

SpecProject == InitProject /\ [][NextProject]_vars

InitScripts == InitNoCall /\ WindowInit(EmptyCanvas)

ScriptStep(t) ==
    \/ StartScript(t) \/ SaveStdout(t) \/ SaveStderr(t) \/ RedirectStdout(t)
    \/ RedirectStderr(t) \/ ExecScript(t) \/ RestoreStdout(t) \/ RestoreStderr(t)

NextScripts == \E t \in 1..MaxScriptThreads : ScriptStep(t)

SpecScripts == InitScripts /\ [][NextScripts]_vars

InitMeshSearch == InitNoCall /\ WindowInit(EmptyCanvas)

\* a statement of a search that has begun
MeshSearchStep == FindMeshesStep \/ FindCycleStep

NextMeshSearch == BeginMeshSearch \/ MeshSearchStep

\* the interpreter executes the next statement of a search that has begun
SpecMeshSearch == InitMeshSearch /\ [][NextMeshSearch]_vars /\ WF_vars(MeshSearchStep)

\* =================================================================== claims
\* ---- vocabulary of the claims, stated on the netlist itself
Ids == ComponentIds(circuit_data.components)

\* the pairs of components that some wire of the netlist links, each as the set
\* of its two ends
Links ==
    {l \in {{circuit_data.wires[i].from, circuit_data.wires[i].to} :
                i \in {j \in 1..Len(circuit_data.wires) : circuit_data.wires[j].isdict}} :
        l \subseteq Ids}

\* some wire of the netlist links components a and b
Linked(a, b) == {a, b} \in Links

\* the components joined to a component of S by a path of the links
RECURSIVE Grow(_, _)
Grow(S, links) ==
    LET T == S \cup UNION {l \in links : l \cap S # {}}
    IN IF T = S THEN S ELSE Grow(T, links)

ReachableFrom(c) == Grow({c}, Links)

\* the endpoints named by the wires of the netlist
WireEndpoints ==
    UNION {{circuit_data.wires[i].from, circuit_data.wires[i].to} :
              i \in {j \in 1..Len(circuit_data.wires) : circuit_data.wires[j].isdict}}

Returned == validation.state = "returned"

IssuesWith(text) == {i \in 1..Len(issues) : issues[i].message.text = text}

IssuesAbout(text, c) == {i \in IssuesWith(text) : issues[i].message.ref = c}

ErrorIssues == {i \in 1..Len(issues) : issues[i].level = "error"}

\* position of the check that produces an issue in the battery of checks
CheckRank(issue) ==
    CASE issue.message.text = "Circuit is empty" -> 1
      [] issue.message.text = "is not connected" -> 2
      [] issue.message.text = "Wire references non-existent component" -> 3
      [] issue.message.text = "Circuit has no ground reference" -> 4
      [] issue.message.text = "Circuit has no voltage or current sources" -> 5
      [] issue.message.text = "is disconnected from main circuit" -> 6
      [] OTHER -> 0

\* C1: in MainWindow.run_simulation, a validation that reports an error-level
\* issue never leads to simulation_engine.run(), and a validation that reports
\* only warnings/info (or nothing) leads to simulation_engine.run().
C1_ErrorsBlockWarningsDoNot ==
    /\ last_request.validated = "invalid" => ~last_request.run_invoked
    /\ last_request.validated = "valid" => last_request.run_invoked

\* C2: validate_circuit returns is_valid = True exactly when the returned
\* issues contain no issue of level error.
C2_ValidIffNoError ==
    Returned => (validation.is_valid <=> ErrorIssues = {})

C2_Witness ==
    /\ Returned /\ validation.is_valid
    /\ \E i \in 1..Len(issues) : issues[i].level = "warning"
    /\ Len(circuit_data.wires) > 0

\* C3: a netlist with a wire whose "from" or "to" is an id that is not a
\* component makes validate_circuit return is_valid = False with at least one
\* error-level issue.
C3_DanglingWireInvalid ==
    (Returned /\ \E e \in WireEndpoints : e # None /\ e \notin Ids)
        => (~validation.is_valid /\ ErrorIssues # {})

C3_Witness ==
    /\ Returned
    /\ Len(circuit_data.components) = 1
    /\ circuit_data.wires = <<DictWire(1, 2)>>
    /\ ~validation.is_valid

\* C4: on the empty netlist validate_circuit returns is_valid = True and
\* exactly one issue, the warning "Circuit is empty".
C4_EmptyNetlist ==
    (Returned /\ circuit_data = EmptyCircuit)
        => /\ validation.is_valid
           /\ issues = <<ValidationIssue("warning", None, "Circuit is empty", None)>>

C4_Witness == Returned /\ circuit_data = EmptyCircuit /\ Len(issues) = 1

C6_WarningIffNoAdjacencyEntry ==
    Returned
        => \A c \in Ids :
              Cardinality(IssuesAbout("is not connected", c)) =
                  IF \E b \in Ids : Linked(c, b) THEN 0 ELSE 1

\* C6 amended: exactly one "not connected" warning for each component that no
\* wire names as its "from" or "to", and none for a component that some wire
\* names, whatever the other end of that wire is.
C6_WarningIffNoWireNamesIt ==
    Returned
        => \A c \in Ids :
              LET about == IssuesAbout("is not connected", c)
              IN /\ \A i \in about : issues[i].level = "warning" /\ issues[i].component_id = c
                 /\ Cardinality(about) = IF c \in WireEndpoints THEN 0 ELSE 1

C6_Witness ==
    /\ Returned
    /\ Len(circuit_data.components) = 2
    /\ circuit_data.wires = <<DictWire(1, 3)>>
    /\ IssuesAbout("is not connected", 1) = {}
    /\ IssuesAbout("is not connected", 2) # {}

\* C7: the returned issues are ordered by the battery of checks (empty
\* circuit, isolated components, dangling wires, ground reference, source
\* presence, global connectivity), and the later checks still run when an
\* earlier one reported an error.
C7_IssuesInCheckOrder ==
    Returned
        => /\ \A i \in 1..Len(issues) : \A j \in 1..Len(issues) :
                 i < j => CheckRank(issues[i]) <= CheckRank(issues[j])
           /\ \A i \in 1..Len(issues) : CheckRank(issues[i]) # 0
           /\ (/\ IssuesWith("Wire references non-existent component") # {}
               /\ Len(circuit_data.components) > 0)
                 => /\ (\A k \in 1..Len(circuit_data.components) :
                           circuit_data.components[k].type # "Ground")
                         => IssuesWith("Circuit has no ground reference") # {}
                    /\ (\A k \in 1..Len(circuit_data.components) :
                           circuit_data.components[k].type # "voltage_source")
                         => IssuesWith("Circuit has no voltage or current sources") # {}
                    /\ \A c \in Ids \ ReachableFrom(circuit_data.components[1].id) :
                           IssuesAbout("is disconnected from main circuit", c) # {}

C7_Witness ==
    /\ Returned
    /\ Len(issues) = 5
    /\ CheckRank(issues[1]) = 2 /\ CheckRank(issues[2]) = 3 /\ CheckRank(issues[3]) = 4
    /\ CheckRank(issues[4]) = 5 /\ CheckRank(issues[5]) = 6

Analyzed == analysis.state = "returned"

Groups == analysis.result.connectivity.groups

\* the components outside `used` can be lined up behind `last`, each wired to
\* the one before it
RECURSIVE ChainFrom(_, _, _, _)
ChainFrom(last, used, ids, links) ==
    \/ used = ids
    \/ \E b \in ids \ used : {last, b} \in links /\ ChainFrom(b, used \cup {b}, ids, links)

\* all components can be lined up so that each is wired to the next one
WiredInSingleChain ==
    LET ids == Ids
        links == Links
    IN \E c \in ids : ChainFrom(c, {c}, ids, links)

\* C8: the connectivity analysis places every component in exactly one
\* connected group: the groups are pairwise disjoint, their union is the set of
\* component ids, a component with no adjacency entries is a group of its own,
\* and components wired in a single chain form exactly one group.
C8_GroupsPartitionComponents ==
    Analyzed
        => /\ \A g \in 1..Len(Groups) : \A h \in 1..Len(Groups) :
                 g # h => Groups[g] \cap Groups[h] = {}
           /\ UNION {Groups[g] : g \in 1..Len(Groups)} = Ids
           /\ LET links == Links
              IN \A g \in 1..Len(Groups) : \A c \in Groups[g] :
                    Groups[g] = Grow({c}, links)
           /\ \A c \in Ids :
                 adjacency_list[c] = <<>> => \E g \in 1..Len(Groups) : Groups[g] = {c}
           /\ Ids # {} => analysis.result.connectivity.separate_groups = Len(Groups)
           /\ Ids # {} => analysis.result.connectivity.connected_components = Cardinality(Ids)
           /\ WiredInSingleChain => analysis.result.connectivity.separate_groups = 1

C8_Witness ==
    /\ Analyzed
    /\ Len(circuit_data.components) = 3
    /\ circuit_data.wires = <<DictWire(3, 2), DictWire(1, 3)>>
    /\ WiredInSingleChain
    /\ Groups = <<{1, 2, 3}>>

\* a second reachable case of C8: an isolated component next to a wired pair
C8_IsolatedWitness ==
    /\ Analyzed
    /\ Len(circuit_data.components) = 3
    /\ adjacency_list[2] = <<>>
    /\ Groups = <<{1, 3}, {2}>>

\* C9: after _build_adjacency_list the adjacency is symmetric, its keys are
\* exactly the component ids of the netlist, no neighbour list has a duplicate,
\* every neighbour is a component of the netlist (and is one exactly when a wire
\* links the two), and nothing of an earlier netlist is left.
C9_AdjacencyWellFormed ==
    Analyzed
        => /\ DOMAIN adjacency_list = Ids
           /\ \A a \in Ids : \A b \in Ids :
                 InList(b, adjacency_list[a]) <=> InList(a, adjacency_list[b])
           /\ \A a \in Ids : \A i \in 1..Len(adjacency_list[a]) :
                 /\ adjacency_list[a][i] \in Ids
                 /\ \A j \in 1..Len(adjacency_list[a]) :
                       adjacency_list[a][i] = adjacency_list[a][j] => i = j
           /\ LET links == Links
              IN \A a \in Ids : \A b \in Ids :
                    InList(b, adjacency_list[a]) <=> {a, b} \in links

C9_Witness ==
    /\ Analyzed
    /\ Len(circuit_data.components) = 2
    /\ circuit_data.wires = <<DictWire(1, 2), DictWire(2, 1), DictWire(2, 3)>>
    /\ adjacency_list[1] = <<2>> /\ adjacency_list[2] = <<1>>

\* a second reachable case of C9: a self-loop wire
C9_SelfLoopWitness ==
    /\ Analyzed
    /\ Len(circuit_data.components) = 1
    /\ circuit_data.wires = <<DictWire(1, 1)>>
    /\ adjacency_list[1] = <<1>>

Meshes == analysis.result.meshes

\* C10: every mesh of _find_meshes starts at the origin of its starting edge,
\* has more than 2 pairwise distinct components, each adjacent to the next and
\* the last adjacent to the origin; and no two meshes share their starting
\* undirected edge.
C10_MeshesAreCycles ==
    Analyzed
        => /\ \A m \in 1..Len(Meshes) :
                 LET mesh == Meshes[m]
                 IN /\ Len(mesh) > 2
                    /\ \A i \in 1..Len(mesh) : \A j \in 1..Len(mesh) :
                          mesh[i] = mesh[j] => i = j
                    /\ \A i \in 1..Len(mesh) : mesh[i] \in Ids
                    /\ \A i \in 1..(Len(mesh) - 1) :
                          InList(mesh[i + 1], adjacency_list[mesh[i]])
                    /\ InList(mesh[1], adjacency_list[mesh[Len(mesh)]])
           /\ \A m \in 1..Len(Meshes) : \A k \in 1..Len(Meshes) :
                 m # k => {Meshes[m][1], Meshes[m][2]} # {Meshes[k][1], Meshes[k][2]}

C10_Witness ==
    /\ Analyzed
    /\ Len(circuit_data.components) = 3
    /\ circuit_data.wires = <<DictWire(1, 2), DictWire(2, 3), DictWire(3, 1)>>
    /\ Len(Meshes) > 0
    /\ Meshes[1] = <<1, 2, 3>>

\* the components of the netlist that are on the grid position of component c
OnSameNode(c) ==
    {d \in Ids : GridPosition(ComponentById(circuit_data.components, d)) =
                    GridPosition(ComponentById(circuit_data.components, c))}

\* the distinct grid positions of the components that precede the first
\* component on the grid position of c
NodesSeenBefore(c) ==
    LET cs == circuit_data.components
        first == CHOOSE i \in 1..Len(cs) :
                    /\ cs[i].id \in OnSameNode(c)
                    /\ \A j \in 1..(i - 1) : cs[j].id \notin OnSameNode(c)
    IN {GridPosition(cs[j]) : j \in 1..(first - 1)}

NumberingOfNetlist ==
    /\ DOMAIN node_mapping = Ids
    /\ {node_mapping[c] : c \in DOMAIN node_mapping} =
           0..(Cardinality({OnSameNode(c) : c \in Ids}) - 1)
    /\ \A c \in Ids : \A d \in Ids :
           c \in DOMAIN node_mapping /\ d \in DOMAIN node_mapping
               => (node_mapping[c] = node_mapping[d] <=> d \in OnSameNode(c))
    /\ \A c \in Ids :
           c \in DOMAIN node_mapping
               => node_mapping[c] = Cardinality(NodesSeenBefore(c))

\* C11: after analyze_circuit every component of the netlist has an index in
\* node_mapping, the indices are exactly 0..k-1 for k distinct electrical
\* nodes (grid positions), two components share an index exactly when they are
\* on the same node, indices follow the order in which the nodes are first
\* seen, and numbering the unchanged netlist again gives the same mapping.
C11_DenseStableNumbering ==
    /\ [](Analyzed => NumberingOfNetlist)
    /\ [][(Analyzed /\ circuit_data' = circuit_data) => node_mapping' = node_mapping]_vars

\* the part of C11 that the code keeps: the same numbering restricted to the
\* components that are dicts
NumberingOfDictComponents ==
    Analyzed
        => LET dicts == {c \in Ids : ComponentById(circuit_data.components, c).isdict}
               nodes == {OnSameNode(c) \cap dicts : c \in dicts}
           IN /\ DOMAIN node_mapping = dicts
              /\ {node_mapping[c] : c \in dicts} = 0..(Cardinality(nodes) - 1)
              /\ analysis.result.node_count = Cardinality(nodes)
              /\ \A c \in dicts : \A d \in dicts :
                     node_mapping[c] = node_mapping[d] <=> d \in OnSameNode(c)
              /\ \A c \in dicts :
                     LET first == CHOOSE f \in OnSameNode(c) \cap dicts :
                                      \A g \in OnSameNode(c) \cap dicts : f <= g
                     IN node_mapping[c] =
                            Cardinality({OnSameNode(d) \cap dicts : d \in {e \in dicts : e < first}})

\* numbering the unchanged netlist again gives the same mapping
RenumberingIsStable ==
    [][(Analyzed /\ circuit_data' = circuit_data) => node_mapping' = node_mapping]_vars

\* a netlist of canvas objects is analyzed and no component gets an index
C11_NoIndexForCanvasObjects ==
    /\ Analyzed
    /\ Len(circuit_data.components) = 2
    /\ \A i \in 1..2 : ~circuit_data.components[i].isdict
    /\ node_mapping = EmptyMapping

\* ---- vocabulary of the engine claims
\* caller c's run() has returned a result
RunReturned(c) == calls[c].state = "returned"

\* caller c's run() has ended, by a return or by an exception
RunEnded(c) == calls[c].state \in {"returned", "raised"}

\* C12: after setup_dc_analysis(), run() returns status "success", exactly one
\* time point and a non-failed node-voltage mapping (the DC system is solvable
\* and not reported singular).
C12_DCRunSucceeds ==
    (RunReturned(1) /\ calls[1].asked = setup_dc_analysis)
        => /\ calls[1].returned.status = "success"
           /\ Len(calls[1].returned.time_points) = 1
           /\ calls[1].returned.node_voltages # {}

\* what the DC run does return: the singular-matrix failure
DCRunReportsSingular ==
    (RunReturned(1) /\ calls[1].asked = setup_dc_analysis)
        => calls[1].returned = singular_result(<<0>>)

DCRunReached == RunReturned(1) /\ calls[1].asked = setup_dc_analysis

\* C13: a transient run of duration D, a positive multiple of the time step
\* dt, returns "success" with more than one time point, the axis starts at 0,
\* advances by dt, and its last point is at least D.
C13_TransientCoversDuration ==
    (RunReturned(1) /\ calls[1].asked.sim_type = "transient")
        => LET r == calls[1].returned
               D == calls[1].asked.duration
               dt == calls[1].asked.time_step
           IN /\ r.status = "success"
              /\ Len(r.time_points) > 1
              /\ r.time_points[1] = 0
              /\ \A i \in 1..(Len(r.time_points) - 1) :
                     r.time_points[i + 1] = r.time_points[i] + dt
              /\ r.time_points[Len(r.time_points)] >= D

\* what the transient run does return: a failure when the axis has one point,
\* else an axis 0, dt, 2dt, ... that stops at D - dt unless the float quotient
\* D / dt rounds up
TransientAxisOfArange ==
    (RunReturned(1) /\ calls[1].asked.sim_type = "transient")
        => LET r == calls[1].returned
               D == calls[1].asked.duration
               dt == calls[1].asked.time_step
               n == (D \div dt) + calls[1].asked.quotient_excess
           IN IF n < 2 THEN r.status = "failed"
              ELSE /\ r.status = "success"
                   /\ r.time_points = [i \in 1..n |-> (i - 1) * dt]

TransientRunReached ==
    /\ RunReturned(1)
    /\ calls[1].asked = setup_transient_analysis(4, 2, 0)
    /\ calls[1].returned.time_points = <<0, 2>>

\* C14: a stop requested between two points of a multi-point run makes the
\* run end before all points are computed, with status "cancelled" and the
\* series accumulated so far.
C14_StopCancelsRun ==
    (progress.state = "done" /\ progress.stop_requested)
        => /\ calls[1].returned.status = "cancelled"
           /\ Len(calls[1].returned.time_points) < progress.total
           /\ progress.points < progress.total

\* what the run does after a stop request: all its points, and "success"
StopIsNotObserved ==
    progress.state = "done"
        => /\ progress.points = progress.total
           /\ calls[1].returned = run_analysis(config)
           /\ calls[1].returned.status \in {"success", "failed"}

StoppedRunReached ==
    /\ progress.state = "done"
    /\ progress.stop_requested
    /\ config.sim_type = "monte_carlo"
    /\ calls[1].returned.status = "success"

\* C15 (engine half, which is enough to refute the claim): each of two
\* callers that set up an analysis and run it on the same engine gets the
\* result of the analysis it configured itself.
C15_RequestsDoNotInterfere ==
    \A c \in Callers :
        RunReturned(c) => calls[c].returned = run_analysis(calls[c].asked)

\* a caller's run() executes what the engine's config holds at that moment
RunUsesSharedConfig ==
    [][\A c \in Callers :
          (calls[c].state = "configured" /\ calls'[c].state = "returned")
              => calls'[c].returned = run_analysis(config)]_vars

\* the two callers asked for different analyses and one got the other's
InterferenceReached ==
    /\ RunReturned(1) /\ RunReturned(2)
    /\ calls[1].asked = setup_dc_analysis
    /\ calls[2].asked.sim_type = "ac"
    /\ calls[1].returned.status = "success"

\* a result is all-or-nothing
AllOrNothing(r) ==
    /\ r.status \in {"success", "failed"}
    /\ r.status = "failed"
          => /\ r.error_message # NoMessage /\ r.error_message # ""
             /\ r.node_voltages = {} /\ r.component_currents = {}
             /\ r.power_dissipation = {}
    /\ r.status = "success" => r.error_message = NoMessage

\* C16: every result that run() returns is "failed" with a non-empty
\* error_message and empty voltage, current and power series, or "success"
\* without error_message; no other status is returned.
C16_ResultsAllOrNothing ==
    /\ RunReturned(1) => AllOrNothing(calls[1].returned)
    /\ result # NoResult => AllOrNothing(result)

C16_Witness ==
    /\ RunReturned(1)
    /\ calls[1].asked = setup_dc_analysis
    /\ calls[1].returned.status = "failed"
    /\ calls[1].returned.time_points = <<0>>
    /\ result = calls[1].returned

\* a second reachable case of C16: a successful run
C16_SuccessWitness ==
    /\ RunReturned(1)
    /\ calls[1].asked.sim_type = "monte_carlo"
    /\ calls[1].returned.status = "success"
    /\ calls[1].returned.error_message = NoMessage

\* C17: run() before any setup_* call raises nothing and returns a "failed"
\* result whose error_message is "No simulation configuration set".
C17_RunWithoutConfig ==
    (RunEnded(1) /\ calls[1].asked = NoConfig)
        => /\ RunReturned(1)
           /\ calls[1].returned.status = "failed"
           /\ calls[1].returned.error_message = "No simulation configuration set"

C17_Witness ==
    /\ RunReturned(1)
    /\ calls[1].asked = NoConfig
    /\ config = NoConfig
    /\ Len(callbacks) > 0 /\ callbacks[1] = "raises"
    /\ notified = <<>>

\* C18: every run() of a configured engine calls each callback registered
\* before the run exactly once, in registration order, with the result that
\* run() returns, after the result is stored and is_running is False, whatever
\* the callbacks do.
C18_EveryCallbackNotifiedOnce ==
    [][(config # NoConfig /\ Run(1))
          => /\ calls'[1].state = "returned"
             /\ notified' = [k \in 1..Len(callbacks) |->
                                Notification(k, calls'[1].returned, calls'[1].returned, FALSE)]
             /\ result' = calls'[1].returned
             /\ is_running' = FALSE]_vars

\* what run() does: the callbacks are called in order up to and including the
\* first one that raises, and then run() raises instead of returning
CallbacksNotifiedUntilOneRaises ==
    [][(config # NoConfig /\ Run(1))
          => LET raising == {k \in 1..Len(callbacks) : callbacks[k] = "raises"}
                 last == IF raising = {} THEN Len(callbacks)
                         ELSE CHOOSE k \in raising : \A j \in raising : k <= j
             IN /\ notified' = [k \in 1..last |-> Notification(k, result', result', FALSE)]
                /\ calls'[1].state = IF raising = {} THEN "returned" ELSE "raised"
                /\ result' = run_analysis(config)]_vars

\* a raising callback kept the one registered after it from being called
SkippedCallbackReached ==
    /\ calls[1].state = "raised"
    /\ callbacks = <<"raises", "returns">>
    /\ Len(notified) = 1

\* C19: after any sequence of add_node, add_component and connect, component
\* c lists node n in its nodes exactly when node n lists component c in its
\* connected_components.
C19_BindingsAgree ==
    \A n \in 1..MaxNodes : \A c \in 1..MaxComponents :
        (c \in DOMAIN circuit_components /\ InList(n, circuit_components[c]))
            <=> (n \in DOMAIN circuit_nodes /\ InList(c, circuit_nodes[n]))

\* what the code keeps: connect adds to both sides or to none
ConnectBindsBothSides ==
    [][Connect =>
          \/ /\ last_connect'.bound
             /\ \E n \in DOMAIN circuit_nodes, c \in DOMAIN circuit_components :
                   /\ circuit_nodes' = [circuit_nodes EXCEPT ![n] = Append(@, c)]
                   /\ circuit_components' = [circuit_components EXCEPT ![c] = Append(@, n)]
          \/ /\ ~last_connect'.bound
             /\ UNCHANGED <<circuit_nodes, circuit_components>>]_vars

\* a node added again after a connect has lost the binding its component keeps
ReplacedNodeReached ==
    /\ DOMAIN circuit_nodes = {1}
    /\ circuit_nodes[1] = <<>>
    /\ DOMAIN circuit_components = {1}
    /\ circuit_components[1] = <<1>>

\* C20: Circuit.connect with a node id or a component id that is not in the
\* circuit raises an error instead of being accepted or ignored.
C20_UnknownIdRaises ==
    (last_connect.called /\ ~(last_connect.node_known /\ last_connect.component_known))
        => last_connect.raised

\* what the code does with an unknown id: nothing, and no error
UnknownIdIsIgnored ==
    /\ [](last_connect.called => ~last_connect.raised)
    /\ [][(Connect /\ ~(last_connect'.node_known /\ last_connect'.component_known))
             => UNCHANGED <<circuit_nodes, circuit_components>>]_vars

UnknownIdReached ==
    /\ last_connect.called
    /\ last_connect.node_known /\ ~last_connect.component_known
    /\ ~last_connect.raised /\ ~last_connect.bound

\* ---- vocabulary of the canvas claims
\* the three dicts of a canvas that an undo state holds
Restorable(snapshot) ==
    [components |-> snapshot.components, wires |-> snapshot.wires,
     node_to_component |-> snapshot.node_to_component]

RemovalOps == {"_on_delete", "cut", "_on_cut", "keyPressEvent", "delete"}

\* the components the last operation took off the canvas, and the nodes that
\* were bound to them
Removed == (DOMAIN canvas_call.before.components) \ (DOMAIN circuit_canvas.components)

NodesOfRemoved ==
    {nid \in DOMAIN canvas_call.before.node_to_component :
        canvas_call.before.node_to_component[nid] \in Removed}

\* what is still bound to a removed component
LeftoverNodes == NodesOfRemoved \cap DOMAIN circuit_canvas.nodes

LeftoverOwners ==
    {nid \in DOMAIN circuit_canvas.node_to_component :
        circuit_canvas.node_to_component[nid] \in Removed}

LeftoverWires ==
    {w \in DOMAIN circuit_canvas.wires :
        \/ circuit_canvas.wires[w].from_node \in NodesOfRemoved
        \/ circuit_canvas.wires[w].to_node \in NodesOfRemoved}

\* C21: after a component is removed from the schematic (_on_delete, cut, the
\* Delete key), no node, no node_to_component entry and no wire still refers
\* to the removed component or to one of its nodes.
C21_RemovedComponentDetached ==
    (canvas_call.op \in RemovalOps /\ ~canvas_call.raised /\ Removed # {})
        => (LeftoverNodes = {} /\ LeftoverOwners = {} /\ LeftoverWires = {})

\* a removal by _on_delete that leaves a wire on the removed nodes
C21_DanglingWireReached ==
    /\ canvas_call.op = "_on_delete" /\ Removed # {}
    /\ LeftoverWires # {} /\ LeftoverNodes = {} /\ LeftoverOwners = {}

\* a removal by the Delete key that leaves the nodes of the component
C21_OrphanNodesReached ==
    /\ canvas_call.op = "keyPressEvent" /\ Removed # {}
    /\ LeftoverNodes # {} /\ LeftoverOwners # {}

\* C22: every add_component call returns an id that was not in use before the
\* call, leaves every component that was present in place, and makes the
\* number of components one larger.
C22_AddReturnsFreshId ==
    canvas_call.op = "add_component"
        => /\ canvas_call.returned \notin DOMAIN canvas_call.before.components
           /\ \A c \in DOMAIN canvas_call.before.components :
                 /\ c \in DOMAIN circuit_canvas.components
                 /\ circuit_canvas.components[c] = canvas_call.before.components[c]
           /\ Cardinality(DOMAIN circuit_canvas.components)
                 = Cardinality(DOMAIN canvas_call.before.components) + 1

\* an add_component that returned the id of a component already on the canvas
C22_IdReusedReached ==
    /\ canvas_call.op = "add_component"
    /\ canvas_call.returned \in DOMAIN canvas_call.before.components
    /\ DOMAIN circuit_canvas.components = DOMAIN canvas_call.before.components

\* C23: move_component(comp_id, dx, dy) on an existing component at (x, y)
\* leaves it at exactly (x + dx, y + dy).
C23_MoveByOffset ==
    (canvas_call.op = "move_component"
        /\ canvas_call.comp_id \in DOMAIN canvas_call.before.components)
        => LET was == canvas_call.before.components[canvas_call.comp_id]
               now == circuit_canvas.components[canvas_call.comp_id]
           IN now.x = was.x + canvas_call.dx /\ now.y = was.y + canvas_call.dy

\* the move of the test suite: (100, 100) moved by (50, 50) ends at (160, 160)
C23_SnappedMoveReached ==
    /\ canvas_call.op = "move_component" /\ canvas_call.dx = 50
    /\ canvas_call.before.components[canvas_call.comp_id].x = 100
    /\ circuit_canvas.components[canvas_call.comp_id].x = 160
    /\ circuit_canvas.snap_to_grid

UndoableOps == {"add_component", "add_wire", "paste", "cut", "delete"}

\* C28: an operation that changes the set of components or wires
\* (add_component, add_wire, paste, cut, MainWindow.delete) followed by one
\* undo() leaves components, wires and node_to_component as they were
\* immediately before the operation.
C28_UndoRestoresBeforeOperation ==
    (canvas_call.op = "undo" /\ canvas_call.prev_op \in UndoableOps
        /\ canvas_call.prev_changed)
        => Restorable(Snapshot(circuit_canvas)) = Restorable(canvas_call.prev_before)

\* the same for the operations that call save_state themselves
C28_SavingOperationsUndoable ==
    (canvas_call.op = "undo" /\ canvas_call.prev_op \in UndoableOps \ {"add_component"}
        /\ canvas_call.prev_changed)
        => Restorable(Snapshot(circuit_canvas)) = Restorable(canvas_call.prev_before)

\* add_component followed by undo() on a canvas with an empty undo stack
C28_AddNotUndoneReached ==
    /\ canvas_call.op = "undo" /\ canvas_call.prev_op = "add_component"
    /\ canvas_call.prev_before.components # circuit_canvas.components
    /\ canvas_call.before.components = circuit_canvas.components

\* C24: after save_project(p) has returned True, load_project(p.path) finds the
\* saved file and returns a project with the name and the path of p, whatever
\* the name and the path of p are.
C24_SaveLoadRoundTrip ==
    (project_call.op = "load_project" /\ project_call.saved # NoProject
        /\ project_call.path = project_call.saved.path)
        => /\ ~project_call.raised
           /\ project_call.loaded.name = project_call.saved.name
           /\ project_call.loaded.path = project_call.saved.path

\* the round trip of a project created with its default path
C24_DefaultPathRoundTrip ==
    (project_call.op = "load_project" /\ project_call.saved # NoProject
        /\ project_call.path = project_call.saved.path
        /\ project_call.saved.path = DefaultPath(project_call.saved.name))
        => /\ ~project_call.raised
           /\ project_call.loaded.name = project_call.saved.name
           /\ project_call.loaded.path = project_call.saved.path

\* a saved project whose directory is not named after it is not found again
C24_SavedFileNotFoundReached ==
    /\ project_call.op = "load_project" /\ project_call.raised
    /\ project_call.saved # NoProject
    /\ project_call.path = project_call.saved.path
    /\ saved_file(project_call.saved) \in DOMAIN project_files

\* C25: for a netlist with at least two components, a component that no wire
\* names makes validate_circuit return is_valid = False: its "not connected"
\* warning comes with at least one error "disconnected from main circuit".
C25_IsolatedImpliesInvalid ==
    (Returned /\ Len(circuit_data.components) >= 2)
        => LET named == WireEndpoints
           IN \A c \in Ids :
                 c \notin named
                    => /\ ~validation.is_valid
                       /\ IssuesAbout("is not connected", c) # {}
                       /\ \E i \in IssuesWith("is disconnected from main circuit") :
                             issues[i].level = "error"

\* the isolated component is the first one: the error is about the others
C25_Witness ==
    /\ Returned
    /\ Len(circuit_data.components) = 3
    /\ circuit_data.wires = <<DictWire(2, 3)>>
    /\ IssuesAbout("is not connected", 1) # {}
    /\ IssuesAbout("is disconnected from main circuit", 1) = {}
    /\ IssuesAbout("is disconnected from main circuit", 2) # {}
    /\ ~validation.is_valid

\* C26: every emission of simulation_started by run_simulation is followed by
\* an emission of simulation_finished for the same request, on every path
\* through run_simulation; run_simulation runs to its end within one step, so
\* after each step the last signal emitted is simulation_finished.
C26_StartedThenFinished ==
    Len(signals) > 0 => signals[Len(signals)] = "simulation_finished"

\* a request that was started and, validation having failed or raised, never
\* finished
C26_UnfinishedRequestReached ==
    /\ last_request.validated \in {"invalid", "raised"}
    /\ ~last_request.finished
    /\ signals[Len(signals)] = "simulation_started"

\* on the path where validation passes the request is finished
C26_ValidRequestFinished ==
    last_request.validated = "valid"
        => /\ last_request.finished
           /\ signals[Len(signals)] = "simulation_finished"

\* ---- vocabulary of the mesh search claim
NoRepeats(path) == \A a \in 1..Len(path) : \A b \in 1..Len(path) : path[a] = path[b] => a = b

\* every active _find_cycle call has extended the path of its caller by its
\* next_node, a component that was not on it
FramesExtendPath ==
    \A d \in 1..Len(mesh_search.stack) :
        LET frame == mesh_search.stack[d]
        IN /\ Len(frame.new_path) = d + 1
           /\ frame.new_path[d + 1] = frame.next_node
           /\ NoRepeats(frame.new_path)
           /\ d > 1 => SubSeq(frame.new_path, 1, d) = mesh_search.stack[d - 1].new_path

\* the search executed call by call returns what _find_meshes returns
MeshSearchAgrees ==
    mesh_search.pc = "done"
        => mesh_search.meshes = _find_meshes(mesh_search.components,
                                             mesh_search.adjacency_list)

C27_DeepSearchReached == Len(mesh_search.stack) = 2

\* a finished search that found no cycle in a netlist with wires
C27_NoCycleReached ==
    /\ mesh_search.pc = "done"
    /\ mesh_search.visited_edges # {}
    /\ mesh_search.meshes = <<>>

\* ---- vocabulary of the undo history claim
\* undo() followed immediately by redo() leaves the three dicts as they were
UndoRedoRestores ==
    saved_state(redo(undo(circuit_canvas))) = saved_state(circuit_canvas)

\* the two stack properties of the claim: the cap on the undo stack, and the
\* redo stack right after save_state
StacksBounded ==
    /\ Len(circuit_canvas.undo_stack) <= max_undo_levels
    /\ canvas_call.op = "save_state" => circuit_canvas.redo_stack = <<>>

\* C29 as stated: after any sequence of save_state, undo and redo (and
\* placements between them) the undo stack holds at most max_undo_levels
\* states, the redo stack is empty right after every save_state, and undo()
\* followed immediately by redo() restores components, wires and
\* node_to_component.
C29_UndoThenRedoRestores == StacksBounded /\ UndoRedoRestores

\* C29 amended: the two stack properties hold, and undo() followed
\* immediately by redo() restores components, wires and node_to_component
\* whenever there is a state to undo; with an empty undo stack undo() does
\* nothing and the redo() that follows re-applies an undone state.
C29_UndoThenRedoRestoresWhenUndoable ==
    /\ StacksBounded
    /\ circuit_canvas.undo_stack # <<>> => UndoRedoRestores

\* the undo stack is full and an undo changes the canvas
C29_Witness ==
    /\ Len(circuit_canvas.undo_stack) = max_undo_levels
    /\ saved_state(undo(circuit_canvas)) # saved_state(circuit_canvas)

\* nothing to undo, and an undone placement to redo
C29_NothingToUndoReached ==
    /\ circuit_canvas.undo_stack = <<>>
    /\ circuit_canvas.redo_stack # <<>>
    /\ saved_state(redo(circuit_canvas)) # saved_state(circuit_canvas)

\* ---- vocabulary of the script threads claim
AllScriptsFinished == \A t \in 1..MaxScriptThreads : script_threads[t].pc = "finished"

StreamsOriginal == sys_streams = [stdout |-> OriginalStdout, stderr |-> OriginalStderr]

\* C30: when two ScriptExecutionThread instances execute concurrently in any
\* interleaving, after both have finished sys.stdout and sys.stderr are again
\* the original streams that were installed before either thread started.
C30_StreamsRestored == AllScriptsFinished => StreamsOriginal

\* both threads have finished and sys.stdout is still the buffer of one of them
C30_BufferLeftInstalledReached ==
    /\ AllScriptsFinished
    /\ \E t \in 1..MaxScriptThreads : sys_streams.stdout = output_buffer(t)

\* the streams are restored when no thread saved a redirected stream: when each
\* finished thread saved the original streams, the streams are the original
\* ones at the end
C30_RestoredWhenOriginalsSaved ==
    (/\ AllScriptsFinished
     /\ \A t \in 1..MaxScriptThreads :
           /\ script_threads[t].old_stdout = OriginalStdout
           /\ script_threads[t].old_stderr = OriginalStderr)
        => StreamsOriginal

====
